---- MODULE Spec2Model ----
(***************************************************************************)
(* Quality gatekeeper of scripts/gatekeeper.py: the gate registry, the     *)
(* risk score, the per-gate evaluation and the promotion decision, the     *)
(* metrics collector and the exit codes of main.                           *)
(* Sample collector of scripts/collect_samples.py: the GitHub source with  *)
(* its rate limit and cap, the final filter, and the isolation of the      *)
(* sources in collect_all_sources.                                         *)
(*                                                                         *)
(* Numbers.  The Python code computes on floats.  Here a metric ratio is   *)
(* an integer number of hundredths (One = 1.00) and a risk score an        *)
(* integer number of thousandths (RiskOne = 1.000), so that the weights    *)
(* 0.2 and 0.1 become the integers 2 and 1 and every sum is exact.  The    *)
(* rounding error of IEEE doubles (a few units in the 17th digit) is not   *)
(* modelled.                                                               *)
(***************************************************************************)
EXTENDS Integers, Sequences, FiniteSets, TLC

VARIABLES
    pc,             \* position of the caller
    config_path,    \* the configuration source handed to QualityGateSystem()
    gates,          \* self.gates
    thresholds,     \* self.thresholds
    metrics,        \* the QualityMetrics snapshot passed to the callee
    gate,           \* the QualityGate passed to _evaluate_gate
    outcome,        \* what _evaluate_gate returned: (passed, warning)
    outcomes,       \* evaluate: the (passed, warning) of each loop iteration
    risk_score,     \* evaluate / GatekeeperResult.risk_score
    passed_gates,   \* evaluate / GatekeeperResult.passed_gates
    failed_gates,   \* evaluate / GatekeeperResult.failed_gates
    warnings,       \* evaluate / GatekeeperResult.warnings
    decision,       \* evaluate / GatekeeperResult.decision
    evals,          \* number of evaluate calls made so far
    result_metrics, \* evaluate / GatekeeperResult.metrics
    previous,       \* the result of the evaluate call before the last one
    tools,          \* main: what the external commands of this run do
    output,         \* main: args.output
    exit_code,      \* main: the status handed to sys.exit
    config,         \* SampleCollector.config
    sources,        \* collect_all_sources: what each source does when attempted
    samples,        \* the list a collecting method builds / is handed
    filtered,       \* what filter_and_deduplicate returned
    collected_hashes, \* SampleCollector.collected_hashes
    events,         \* the requests, delays and calls made, oldest first
    query           \* collect_from_github: queries sent so far

\* the variables of main beyond those of QualityGateSystem
main_vars == <<tools, output, exit_code>>

\* the variables of SampleCollector
collector_vars ==
    <<config, sources, samples, filtered, collected_hashes, events, query>>

\* the variables of the gatekeeper
gatekeeper_vars ==
    <<config_path, gates, thresholds, metrics, gate, outcome, outcomes,
      risk_score, passed_gates, failed_gates, warnings, decision, evals,
      result_metrics, previous, main_vars>>

vars == <<pc, gatekeeper_vars, collector_vars>>

----------------------------------------------------------------------------
(* Bounds of the model *)

\* longest registry handed to evaluate in SpecGates
MaxGates == 2
\* most evaluate calls on one QualityGateSystem in Spec
MaxEvals == 2
\* SpecDecision tries every risk score this close to a threshold, in thousandths
RiskNear == 20
\* most items in one search response in SpecGithub
MaxItems == 2
\* largest max_samples_per_source tried in SpecGithub
MaxCap == 2
\* longest list handed to filter_and_deduplicate in SpecFilter
MaxSamples == 3

----------------------------------------------------------------------------
(* Fixed-point units *)

\* the float 1.0 of a metric ratio, in hundredths
One == 100
\* the float 1.0 of a risk score, in thousandths
RiskOne == 10 * One

\* DecisionType
PROMOTE == "PROMOTE"
MANUAL_QA == "MANUAL_QA"
AGENT_REFINE == "AGENT_REFINE"
DecisionType == {PROMOTE, MANUAL_QA, AGENT_REFINE}
\* no decision made yet
NoDecision == "NONE"

----------------------------------------------------------------------------
(* Python values *)

\* A threshold is Optional[Union[float, bool]]; a str stands for any other
\* malformed value a registry may carry.  num is the numeric value Python
\* uses in a comparison: the float itself, and 1 / 0 for True / False.
FloatT(v) == [kind |-> "float", num |-> v]
BoolT(b) == [kind |-> "bool", num |-> IF b THEN One ELSE 0]
NoneT == [kind |-> "none", num |-> 0]
StrT == [kind |-> "str", num |-> 0]

\* Python compares floats and bools with >=, <=; anything else against a
\* float raises TypeError.
IsNumber(t) == t.kind \in {"float", "bool"}

\* QualityGate(name, description, required, threshold, weight); weight in tenths
QualityGate(n, r, t, w) == [name |-> n, required |-> r, threshold |-> t, weight |-> w]

KnownGateNames ==
    {"mutation_testing", "sast_security", "contract_validation",
     "devirtualization_rate", "build_success"}

\* QualityMetrics(): the dataclass defaults
QualityMetrics ==
    [delta_loc |-> 0, novelty |-> 0, ext_dep_delta |-> 0, mutation |-> 0,
     flakiness |-> 0, static_severity |-> 0, test_coverage |-> 0,
     devirt_success_rate |-> 0, contract_pass_rate |-> One,
     build_success |-> TRUE, parse_time_ms |-> 0, lift_time_ms |-> 0,
     memory_usage_mb |-> 0]

\* bool as a number, as Python's == sees it
BoolNum(b) == IF b THEN One ELSE 0

----------------------------------------------------------------------------
(* Messages.  An f-string is modelled by its template (kind, label), the gate
   name it quotes (name) and, when shown, the measured value and the
   threshold substituted into it; "{x:.3f}" of a value in hundredths prints
   it exactly. *)

Message(k, l, n, s, v, t) ==
    [kind |-> k, label |-> l, name |-> n, shown |-> s, value |-> v, threshold |-> t]

\* warning = None
NoWarning == Message("none", "", "", FALSE, 0, NoneT)
\* f"<label> {value:.3f} below threshold {gate.threshold}"
MsgBelow(l, v, t) == Message("below", l, "", TRUE, v, t)
\* f"<label> {value:.3f} above threshold {gate.threshold}"
MsgAbove(l, v, t) == Message("above", l, "", TRUE, v, t)
\* "Build failed or tests not passing"
MsgBuildFailed == Message("build_failed", "Build failed or tests not passing", "", FALSE, 0, NoneT)
\* f"Unknown gate '{gate.name}' - defaulting to pass"
MsgUnknownGate(n) == Message("unknown_gate", "Unknown gate", n, FALSE, 0, NoneT)
\* f"Gate evaluation error: {e}"
MsgError(e) == Message("error", e, "", FALSE, 0, NoneT)
\* f"Required gate '{gate.name}' failed"
MsgRequiredFailed(n) == Message("required_failed", "Required gate", n, FALSE, 0, NoneT)

\* Python truthiness of Optional[str]: None is false, these texts are not empty
Truthy(w) == w.kind # "none"

----------------------------------------------------------------------------
(* QualityGateSystem *)

\* thresholds of __init__; T_mut and T_devirt in hundredths, T_prop and
\* T_manual in thousandths (they are compared with the risk score)
T_mut == 80
T_prop == 700
T_manual == 500
T_devirt == 60

InitThresholds ==
    [T_mut |-> T_mut, T_prop |-> T_prop, T_manual |-> T_manual, T_devirt |-> T_devirt]

\* variant: the table with its last gate optional
default_gates_optional_build ==
    << QualityGate("mutation_testing", TRUE, FloatT(80), 3),
       QualityGate("sast_security", TRUE, FloatT(0), 2),
       QualityGate("contract_validation", TRUE, FloatT(One), 2),
       QualityGate("devirtualization_rate", TRUE, FloatT(60), 2),
       QualityGate("build_success", FALSE, BoolT(TRUE), 1) >>

\* _load_gates: the literal default table
default_gates ==
    << QualityGate("mutation_testing", TRUE, FloatT(80), 3),
       QualityGate("sast_security", TRUE, FloatT(0), 2),
       QualityGate("contract_validation", TRUE, FloatT(One), 2),
       QualityGate("devirtualization_rate", TRUE, FloatT(60), 2),
       QualityGate("build_success", TRUE, BoolT(TRUE), 1) >>

\* A configuration source.  kind "none": config_path is None; otherwise a
\* path that may exist, may be openable, and whose content may be JSON; body
\* is the gate list the JSON document asks for.  kind "inaccessible": a path
\* under a directory the process may not search, so that stat() fails with
\* EACCES.
ConfigPath(k, b) == [kind |-> k, body |-> b]
\* config_path.exists() raises: pathlib's exists() returns False only for
\* ENOENT, ENOTDIR, EBADF and ELOOP and re-raises any other OSError of stat()
ExistsRaises(cp) == cp.kind = "inaccessible"
PathExists(cp) == cp.kind \in {"unreadable", "unparseable", "ok"}
\* open(config_path) raises OSError
OpenRaises(cp) == cp.kind = "unreadable"
\* json.load(f) raises JSONDecodeError
JsonLoadRaises(cp) == cp.kind = "unparseable"

\* variant: the parsed document's gates are applied when it lists any
LoadConfigTry_apply(cp) ==
    IF OpenRaises(cp) \/ JsonLoadRaises(cp)
    THEN [raised |-> TRUE, value |-> << >>]
    ELSE [raised |-> FALSE, value |-> IF cp.body # << >> THEN cp.body ELSE default_gates]

\* The try block of _load_gates: open, json.load, return default_gates
LoadConfigTry(cp) ==
    IF OpenRaises(cp) \/ JsonLoadRaises(cp)
    THEN [raised |-> TRUE, value |-> << >>]
    ELSE [raised |-> FALSE, value |-> default_gates]

\* _load_gates(config_path): [raised, value]
_load_gates(cp) ==
    IF cp.kind # "none" /\ ExistsRaises(cp)
    THEN \* the condition of the if raises, outside the try block
         [raised |-> TRUE, value |-> << >>]
    ELSE IF cp.kind # "none" /\ PathExists(cp)
    THEN LET r == LoadConfigTry(cp)
         IN  IF r.raised
             THEN \* except Exception: logger.warning(...), fall through
                  [raised |-> FALSE, value |-> default_gates]
             ELSE r
    ELSE [raised |-> FALSE, value |-> default_gates]

\* max(0.0, min(1.0, x)) on thousandths
Min(a, b) == IF a <= b THEN a ELSE b
Max(a, b) == IF a >= b THEN a ELSE b

\* variant: the mutation term not inverted
RawRisk_noinvert(m) ==
    2 * m.delta_loc + 2 * m.novelty + 2 * m.ext_dep_delta
    + 2 * m.mutation + 1 * m.flakiness + 1 * m.static_severity

\* variant: the novelty term inverted as well
RawRisk_invert_novelty(m) ==
    2 * m.delta_loc + 2 * (One - m.novelty) + 2 * m.ext_dep_delta
    + 2 * (One - m.mutation) + 1 * m.flakiness + 1 * m.static_severity

\* the weighted sum of _calculate_risk_score before the clamp, in thousandths
RawRisk(m) ==
    2 * m.delta_loc + 2 * m.novelty + 2 * m.ext_dep_delta
    + 2 * (One - m.mutation) + 1 * m.flakiness + 1 * m.static_severity

\* variant: the weighted sum returned without the clamp
_calculate_risk_score_noclamp(m) == RawRisk(m)

_calculate_risk_score(m) == Max(0, Min(RiskOne, RawRisk(m)))

\* variant: > in place of >=
GateAtLeast_strict(label, v, t) ==
    IF ~IsNumber(t)
    THEN [raised |-> TRUE, passed |-> FALSE, warning |-> NoWarning]
    ELSE LET passed == v > t.num
         IN  [raised |-> FALSE, passed |-> passed,
              warning |-> IF ~passed THEN MsgBelow(label, v, t) ELSE NoWarning]

\* metric >= gate.threshold inside the try block: TypeError unless the
\* threshold is a number; the warning only when the comparison is false
GateAtLeast(label, v, t) ==
    IF ~IsNumber(t)
    THEN [raised |-> TRUE, passed |-> FALSE, warning |-> NoWarning]
    ELSE LET passed == v >= t.num
         IN  [raised |-> FALSE, passed |-> passed,
              warning |-> IF ~passed THEN MsgBelow(label, v, t) ELSE NoWarning]

\* metric <= gate.threshold inside the try block
GateAtMost(label, v, t) ==
    IF ~IsNumber(t)
    THEN [raised |-> TRUE, passed |-> FALSE, warning |-> NoWarning]
    ELSE LET passed == v <= t.num
         IN  [raised |-> FALSE, passed |-> passed,
              warning |-> IF ~passed THEN MsgAbove(label, v, t) ELSE NoWarning]

\* variant: a failed build gate without its warning
GateEquals_silent(b, t) ==
    [raised |-> FALSE, passed |-> IsNumber(t) /\ BoolNum(b) = t.num, warning |-> NoWarning]

\* metrics.build_success == gate.threshold: == never raises; a bool equals a
\* number of the same value and nothing else
GateEquals(b, t) ==
    LET passed == IsNumber(t) /\ BoolNum(b) = t.num
    IN  [raised |-> FALSE, passed |-> passed,
         warning |-> IF ~passed THEN MsgBuildFailed ELSE NoWarning]

\* variant: an unknown gate fails
GateUnknown_fail(n) ==
    [raised |-> FALSE, passed |-> FALSE, warning |-> MsgUnknownGate(n)]

\* unknown gate: pass with a warning
GateUnknown(n) ==
    [raised |-> FALSE, passed |-> TRUE, warning |-> MsgUnknownGate(n)]

\* The try block of _evaluate_gate: the if / elif chain on gate.name
EvaluateGateTry(g, m) ==
    IF g.name = "mutation_testing"
    THEN GateAtLeast("Mutation score", m.mutation, g.threshold)
    ELSE IF g.name = "sast_security"
    THEN GateAtMost("SAST severity", m.static_severity, g.threshold)
    ELSE IF g.name = "contract_validation"
    THEN GateAtLeast("Contract pass rate", m.contract_pass_rate, g.threshold)
    ELSE IF g.name = "devirtualization_rate"
    THEN GateAtLeast("Devirtualization rate", m.devirt_success_rate, g.threshold)
    ELSE IF g.name = "build_success"
    THEN GateEquals(m.build_success, g.threshold)
    ELSE GateUnknown(g.name)

\* variant: no except clause, the exception leaves _evaluate_gate
EvaluateGateExcept_reraise(r) == r

\* except Exception as e: return False, f"Gate evaluation error: {e}"
EvaluateGateExcept(r) ==
    IF r.raised
    THEN [raised |-> FALSE, passed |-> FALSE, warning |-> MsgError("TypeError")]
    ELSE r

\* _evaluate_gate(gate, metrics): [raised, passed, warning]
_evaluate_gate(g, m) == EvaluateGateExcept(EvaluateGateTry(g, m))

\* gate.name in failed_gates
InList(n, list) == \E i \in 1..Len(list) : list[i] = n

\* variant: only the first gate of the registry can force the override
RequiredFailed_first(gs, failed) ==
    SelectSeq(SubSeq(gs, 1, 1), LAMBDA g : g.required /\ InList(g.name, failed))

\* variant: every failed gate counted, required or not
RequiredFailed_any(gs, failed) ==
    SelectSeq(gs, LAMBDA g : InList(g.name, failed))

\* required_failed of _make_decision
RequiredFailed(gs, failed) ==
    SelectSeq(gs, LAMBDA g : g.required /\ InList(g.name, failed))

\* variant: > in place of >= at both thresholds
RiskDecision_strict(th, risk) ==
    IF risk > th.T_prop THEN AGENT_REFINE
    ELSE IF risk > th.T_manual THEN MANUAL_QA
    ELSE PROMOTE

\* the risk-based branch of _make_decision
RiskDecision(th, risk) ==
    IF risk >= th.T_prop THEN AGENT_REFINE
    ELSE IF risk >= th.T_manual THEN MANUAL_QA
    ELSE PROMOTE

\* variant: the required gates are not looked at
_make_decision_risk_only(gs, th, risk, failed) == RiskDecision(th, risk)

\* _make_decision(risk_score, failed_gates, metrics) on self.gates, self.thresholds
_make_decision(gs, th, risk, failed) ==
    IF RequiredFailed(gs, failed) # << >>
    THEN AGENT_REFINE
    ELSE RiskDecision(th, risk)

\* variant: the name of a failed gate put in front of failed_gates
EvaluateStep_prepend(acc, g, m) ==
    LET r == _evaluate_gate(g, m)
        w1 == IF ~r.passed /\ g.required
              THEN Append(acc.warnings, MsgRequiredFailed(g.name))
              ELSE acc.warnings
        w2 == IF Truthy(r.warning) THEN Append(w1, r.warning) ELSE w1
    IN  IF r.raised
        THEN [acc EXCEPT !.raised = TRUE]
        ELSE [raised |-> FALSE,
              passed_gates |-> IF r.passed THEN Append(acc.passed_gates, g.name)
                               ELSE acc.passed_gates,
              failed_gates |-> IF r.passed THEN acc.failed_gates
                               ELSE << g.name >> \o acc.failed_gates,
              warnings |-> w2,
              outcomes |-> Append(acc.outcomes, [passed |-> r.passed, warning |-> r.warning])]

\* variant: the diagnostic appended before the "Required gate ... failed" entry
EvaluateStep_diagnostic_first(acc, g, m) ==
    LET r == _evaluate_gate(g, m)
        w1 == IF Truthy(r.warning) THEN Append(acc.warnings, r.warning)
              ELSE acc.warnings
        w2 == IF ~r.passed /\ g.required
              THEN Append(w1, MsgRequiredFailed(g.name))
              ELSE w1
    IN  IF r.raised
        THEN [acc EXCEPT !.raised = TRUE]
        ELSE [raised |-> FALSE,
              passed_gates |-> IF r.passed THEN Append(acc.passed_gates, g.name)
                               ELSE acc.passed_gates,
              failed_gates |-> IF r.passed THEN acc.failed_gates
                               ELSE Append(acc.failed_gates, g.name),
              warnings |-> w2,
              outcomes |-> Append(acc.outcomes, [passed |-> r.passed, warning |-> r.warning])]

\* one iteration of the for loop of evaluate on the accumulated lists
EvaluateStep(acc, g, m) ==
    LET r == _evaluate_gate(g, m)
        w1 == IF ~r.passed /\ g.required
              THEN Append(acc.warnings, MsgRequiredFailed(g.name))
              ELSE acc.warnings
        w2 == IF Truthy(r.warning) THEN Append(w1, r.warning) ELSE w1
    IN  IF r.raised
        THEN [acc EXCEPT !.raised = TRUE]
        ELSE [raised |-> FALSE,
              passed_gates |-> IF r.passed THEN Append(acc.passed_gates, g.name)
                               ELSE acc.passed_gates,
              failed_gates |-> IF r.passed THEN acc.failed_gates
                               ELSE Append(acc.failed_gates, g.name),
              warnings |-> w2,
              outcomes |-> Append(acc.outcomes, [passed |-> r.passed, warning |-> r.warning])]

\* variant: the loop left at the first gate that fails
RECURSIVE EvaluateLoop_break(_, _, _, _)
EvaluateLoop_break(gs, m, i, acc) ==
    IF i > Len(gs) \/ acc.raised \/ acc.failed_gates # << >>
    THEN acc
    ELSE EvaluateLoop_break(gs, m, i + 1, EvaluateStep(acc, gs[i], m))

\* the for loop of evaluate from gate i on; an exception ends it
RECURSIVE EvaluateLoop(_, _, _, _)
EvaluateLoop(gs, m, i, acc) ==
    IF i > Len(gs) \/ acc.raised
    THEN acc
    ELSE EvaluateLoop(gs, m, i + 1, EvaluateStep(acc, gs[i], m))

\* variant: a low test coverage turning PROMOTE into MANUAL_QA
evaluate_by_coverage(gs, th, m) ==
    LET risk == _calculate_risk_score(m)
        acc0 == [raised |-> FALSE, passed_gates |-> << >>, failed_gates |-> << >>,
                 warnings |-> << >>, outcomes |-> << >>]
        acc == EvaluateLoop(gs, m, 1, acc0)
        d == _make_decision(gs, th, risk, acc.failed_gates)
    IN  [raised |-> acc.raised,
         decision |-> IF acc.raised THEN NoDecision
                      ELSE IF d = PROMOTE /\ m.test_coverage < 50 THEN MANUAL_QA
                      ELSE d,
         risk_score |-> risk,
         passed_gates |-> acc.passed_gates,
         failed_gates |-> acc.failed_gates,
         warnings |-> acc.warnings,
         outcomes |-> acc.outcomes]

\* evaluate(metrics) on self.gates, self.thresholds: the GatekeeperResult
\* (execution_time_s left out), or raised
evaluate(gs, th, m) ==
    LET risk == _calculate_risk_score(m)
        acc0 == [raised |-> FALSE, passed_gates |-> << >>, failed_gates |-> << >>,
                 warnings |-> << >>, outcomes |-> << >>]
        acc == EvaluateLoop(gs, m, 1, acc0)
    IN  [raised |-> acc.raised,
         decision |-> IF acc.raised THEN NoDecision
                      ELSE _make_decision(gs, th, risk, acc.failed_gates),
         risk_score |-> risk,
         passed_gates |-> acc.passed_gates,
         failed_gates |-> acc.failed_gates,
         warnings |-> acc.warnings,
         outcomes |-> acc.outcomes]

----------------------------------------------------------------------------
(* MetricsCollector.  One subprocess.run is modelled by what the collector
   reads of it: kind "raise" when run() itself raises (the command cannot be
   started), "fail" for a non-zero return code, "ok" for return code 0; of
   the standard output, whether the text the collector looks for is there
   (found) and the numbers its pattern captures (a, b). *)

Stdout(f, x, y) == [found |-> f, a |-> x, b |-> y]
Run(k, o) == [kind |-> k, out |-> o]
RunRaises == Run("raise", Stdout(FALSE, 0, 0))
RunFails == Run("fail", Stdout(FALSE, 0, 0))
RunOk(f, x, y) == Run("ok", Stdout(f, x, y))

\* a / b of two counts as a float, in hundredths
Ratio(a, b) == (a * One) \div b

\* _get_total_loc: the wc total, 1000 when find fails or raises
_get_total_loc(r) == IF r.kind = "ok" THEN r.out.a ELSE 1000

\* _collect_loc_delta on the run of git diff --stat (a: insertions plus
\* deletions of the summary line) and the run of find / wc
_collect_loc_delta(r, wc) ==
    IF r.kind = "raise" THEN 0
    ELSE IF r.kind = "fail" THEN 0
    ELSE IF r.out.found
    THEN Min(One, Ratio(r.out.a, Max(_get_total_loc(wc), 1)))
    ELSE 0

\* _collect_novelty on the run of git diff --name-status (a: lines starting
\* with A, b: lines)
_collect_novelty(r) ==
    IF r.kind = "raise" THEN 0
    ELSE IF r.kind = "fail" THEN 0
    ELSE IF r.out.b > 0 THEN Ratio(r.out.a, Max(r.out.b, 1)) ELSE 0

\* _collect_dependency_delta on the run of git diff -- package.json (found:
\* stdout not empty, a: changed dependency lines, b: what
\* _count_total_dependencies counts)
_collect_dependency_delta(r) ==
    IF r.kind = "raise" THEN 0
    ELSE IF r.kind = "fail" \/ ~r.out.found THEN 0
    ELSE Min(One, Ratio(r.out.a, Max(r.out.b, 1)))

\* _parse_mutation_score, _parse_coverage, _parse_devirt_results: the
\* percentage the pattern captures, divided by 100.0
ParsePercent(o) == IF o.found THEN o.a ELSE 0

\* _collect_mutation_score on the run of npm run test:mutation (found:
\* "Mutation score: a%")
_collect_mutation_score(r) ==
    IF r.kind = "raise" THEN 0
    ELSE IF r.kind = "fail" THEN 0
    ELSE IF r.out.found THEN ParsePercent(r.out) ELSE 0

\* _collect_test_coverage on the run of npm run test:coverage
_collect_test_coverage(r) ==
    IF r.kind = "raise" THEN 0
    ELSE IF r.kind = "fail" THEN 0
    ELSE ParsePercent(r.out)

\* _collect_test_flakiness: three runs of npm test, nothing read of them
_collect_test_flakiness(r) == 0

\* _calculate_sast_severity (a: the severity weights summed, in hundredths,
\* b: the number of vulnerabilities)
_calculate_sast_severity(o) ==
    IF ~o.found THEN 0
    ELSE IF o.b > 0 THEN o.a \div o.b ELSE 0

\* _collect_sast_score on the run of npm audit --json
_collect_sast_score(r) ==
    IF r.kind = "raise" THEN 0
    ELSE IF r.kind = "ok" THEN _calculate_sast_severity(r.out)
    ELSE 0

\* _check_build_success on the runs of npm run build and npm test
_check_build_success(build, test) ==
    IF build.kind = "raise" THEN FALSE
    ELSE IF build.kind # "ok" THEN FALSE
    ELSE IF test.kind = "raise" THEN FALSE
    ELSE test.kind = "ok"

\* _collect_devirt_metrics on the run of npm run test:devirt
_collect_devirt_metrics(r) ==
    IF r.kind = "raise" THEN 0
    ELSE IF r.kind = "fail" THEN 0
    ELSE ParsePercent(r.out)

\* _parse_contract_results (found: "a of b contracts passing")
_parse_contract_results(o) ==
    IF o.found
    THEN IF o.b > 0 THEN Ratio(o.a, o.b) ELSE One
    ELSE One

\* variant: the except branch returning the value of the other collectors
_collect_contract_metrics_except_zero(r) ==
    IF r.kind = "raise" THEN 0
    ELSE IF r.kind = "fail" THEN 0
    ELSE _parse_contract_results(r.out)

\* _collect_contract_metrics on the run of npm run test:contracts
_collect_contract_metrics(r) ==
    IF r.kind = "raise" THEN One
    ELSE IF r.kind = "fail" THEN 0
    ELSE _parse_contract_results(r.out)

\* MetricsCollector.collect on the runs t of this invocation
collect(t) ==
    [QualityMetrics EXCEPT
        !.delta_loc = _collect_loc_delta(t.git_stat, t.wc),
        !.novelty = _collect_novelty(t.git_names),
        !.ext_dep_delta = _collect_dependency_delta(t.git_pkg),
        !.mutation = _collect_mutation_score(t.mutation),
        !.test_coverage = _collect_test_coverage(t.coverage),
        !.flakiness = _collect_test_flakiness(t.test),
        !.static_severity = _collect_sast_score(t.audit),
        !.build_success = _check_build_success(t.build, t.test),
        !.parse_time_ms = 0,
        !.lift_time_ms = 0,
        !.memory_usage_mb = 0,
        !.devirt_success_rate = _collect_devirt_metrics(t.devirt),
        !.contract_pass_rate = _collect_contract_metrics(t.contracts)]

\* the runs of one invocation of main, one per external command
Tools(gs, wc, gn, gp, mu, cv, au, bu, te, dv, ct) ==
    [git_stat |-> gs, wc |-> wc, git_names |-> gn, git_pkg |-> gp, mutation |-> mu,
     coverage |-> cv, audit |-> au, build |-> bu, test |-> te, devirt |-> dv,
     contracts |-> ct]

\* outside main no command is run
NoTools ==
    Tools(RunFails, RunFails, RunFails, RunFails, RunFails, RunFails, RunFails,
          RunFails, RunFails, RunFails, RunFails)

\* the process has not called sys.exit
NoExit == -1

\* no GatekeeperResult kept from an earlier call
NoResult ==
    [valid |-> FALSE, metrics |-> QualityMetrics, decision |-> NoDecision,
     risk_score |-> 0, passed_gates |-> << >>, failed_gates |-> << >>,
     warnings |-> << >>]

\* the variables of main while main is not running
NotInMain ==
    /\ tools = NoTools
    /\ output = "none"
    /\ exit_code = NoExit

----------------------------------------------------------------------------
(* SampleCollector of scripts/collect_samples.py.  A downloaded text is
   modelled by what the collector reads of it: its SHA-256 (file_hash, a
   small integer here), its length, the overall_score the detector gives
   it, in hundredths, and whether node --check accepts it. *)

\* CollectionConfig: the cap, the size limits and the three enable flags
CollectionConfig(cap, lo, hi, mb, gh, ac) ==
    [max_samples_per_source |-> cap, min_file_size |-> lo, max_file_size |-> hi,
     enable_malwarebazaar_collection |-> mb, enable_github_collection |-> gh,
     enable_academic_collection |-> ac]

\* the sizes of CollectionConfig() as declared
DefaultMinSize == 1024
DefaultMaxSize == 1024 * 1024

\* Sample: file_hash, file_size, classification["overall_score"],
\* metadata["source"], and the verdict of _is_valid_javascript on its content
Sample(h, size, score, src, valid) ==
    [file_hash |-> h, file_size |-> size, overall_score |-> score,
     source |-> src, valid_js |-> valid]

\* classification["is_obfuscated"] of classify_sample: overall_score > 0.3
IsObfuscated(score) == score > 30

\* the environment of a collection: whether aiohttp was importable and
\* whether self.session is set, and what the three sources do when called
\* (raise, or return a list of samples)
Sources(aio, sess, mb, gh, ac) ==
    [aiohttp |-> aio, session |-> sess, mb |-> mb, gh |-> gh, ac |-> ac]
Returns(list) == [raises |-> FALSE, value |-> list]
Raises == [raises |-> TRUE, value |-> << >>]

\* the variables of SampleCollector while no collection is running
NotCollecting ==
    /\ config = CollectionConfig(50, DefaultMinSize, DefaultMaxSize, TRUE, TRUE, TRUE)
    /\ sources = Sources(TRUE, FALSE, Raises, Raises, Raises)
    /\ samples = << >>
    /\ filtered = << >>
    /\ collected_hashes = {}
    /\ events = << >>
    /\ query = 0

\* the variables of the gatekeeper while the sample collector runs
NoGatekeeper ==
    /\ config_path = ConfigPath("none", << >>)
    /\ gates = << >>
    /\ thresholds = << >>
    /\ metrics = QualityMetrics
    /\ gate = QualityGate("", FALSE, NoneT, 0)
    /\ outcome = [raised |-> FALSE, passed |-> FALSE, warning |-> NoWarning]
    /\ outcomes = << >>
    /\ risk_score = 0
    /\ passed_gates = << >>
    /\ failed_gates = << >>
    /\ warnings = << >>
    /\ decision = NoDecision
    /\ evals = 0
    /\ result_metrics = QualityMetrics
    /\ previous = NoResult
    /\ NotInMain

\* one element of data['items'] of a search response: whether it has a
\* download_url, what the download does ("ok": status 200, "status": another
\* status, "raise": the request raises) and the text it delivers
Item(url, f, c) == [download_url |-> url, fetch |-> f, content |-> c]

\* variant: the download sent without the delay
_fetch_github_file_nodelay(cfg, hashes, item) ==
    LET c == item.content
        none == [found |-> FALSE, sample |-> c, hashes |-> hashes,
                 events |-> << "request" >>]
    IN  IF ~item.download_url THEN [none EXCEPT !.events = << >>]
        ELSE IF item.fetch # "ok" THEN none
        ELSE IF ~(cfg.min_file_size <= c.file_size /\ c.file_size <= cfg.max_file_size)
        THEN none
        ELSE IF c.file_hash \in hashes THEN none
        ELSE IF ~IsObfuscated(c.overall_score) THEN none
        ELSE [found |-> TRUE, sample |-> [c EXCEPT !.source = "github"],
              hashes |-> hashes \cup {c.file_hash}, events |-> << "request" >>]

\* _fetch_github_file(item, headers) with self.collected_hashes = hashes: the
\* Sample or None (found), the hashes afterwards, and the delays and requests
\* made.  An exception of the request is caught and gives None.
_fetch_github_file(cfg, hashes, item) ==
    LET c == item.content
        none == [found |-> FALSE, sample |-> c, hashes |-> hashes,
                 events |-> << "delay", "request" >>]
    IN  IF ~item.download_url THEN [none EXCEPT !.events = << >>]
        ELSE IF item.fetch # "ok" THEN none
        ELSE IF ~(cfg.min_file_size <= c.file_size /\ c.file_size <= cfg.max_file_size)
        THEN none
        ELSE IF c.file_hash \in hashes THEN none
        ELSE IF ~IsObfuscated(c.overall_score) THEN none
        ELSE [found |-> TRUE, sample |-> [c EXCEPT !.source = "github"],
              hashes |-> hashes \cup {c.file_hash},
              events |-> << "delay", "request" >>]

\* the loop over data['items'] from item i on: acc holds samples, hashes,
\* events; the loop is left when samples has reached the cap
RECURSIVE FetchItems(_, _, _, _)
FetchItems(cfg, items, i, acc) ==
    IF i > Len(items) THEN acc
    ELSE LET r == _fetch_github_file(cfg, acc.hashes, items[i])
             next == [samples |-> IF r.found THEN Append(acc.samples, r.sample)
                                  ELSE acc.samples,
                      hashes |-> r.hashes,
                      events |-> acc.events \o r.events]
         IN  IF r.found /\ Len(next.samples) >= cfg.max_samples_per_source
             THEN next
             ELSE FetchItems(cfg, items, i + 1, next)

\* the answer to one search request: "ok" (status 200 with items), "status"
\* (another status), "raise" (the request or the decoding raises)
SearchResponse(k, items) == [kind |-> k, items |-> items]

\* one iteration of the loop over queries: the delay, the search request,
\* and the downloads of the items of a 200 response
QueryIteration(cfg, acc, resp) ==
    LET sent == [acc EXCEPT !.events = << "delay", "request" >>]
    IN  IF resp.kind = "ok" THEN FetchItems(cfg, resp.items, 1, sent) ELSE sent

\* len(queries)
NumQueries == 5

----------------------------------------------------------------------------
(* Inputs *)

\* gate lists a JSON configuration document may ask for
ConfigBodies ==
    { << >>,
      << QualityGate("mutation_testing", FALSE, FloatT(50), 10) >>,
      << QualityGate("build_success", FALSE, BoolT(FALSE), 10),
         QualityGate("license_check", TRUE, NoneT, 10) >> }

ConfigPaths ==
    { ConfigPath(k, << >>) :
        k \in {"none", "missing", "inaccessible", "unreadable", "unparseable"} }
    \cup { ConfigPath("ok", b) : b \in ConfigBodies }

\* a snapshot with the nine fields the engine reads set
Snapshot(dl, nv, ed, mu, fl, ss, cp, dv, bs) ==
    [QualityMetrics EXCEPT
        !.delta_loc = dl, !.novelty = nv, !.ext_dep_delta = ed, !.mutation = mu,
        !.flakiness = fl, !.static_severity = ss, !.contract_pass_rate = cp,
        !.devirt_success_rate = dv, !.build_success = bs]

\* snapshots a collector can hand to evaluate, every ratio within [0, 1]:
\* a small change with every combination of gate metrics, and every
\* combination of small / large risk inputs with all gates passing
Snapshots ==
    { Snapshot(5, 5, 0, mu, 0, ss, cp, dv, bs) :
        mu \in {79, 85, 100}, ss \in {0, 1}, cp \in {99, 100}, dv \in {59, 70},
        bs \in BOOLEAN }
    \cup
    { Snapshot(dl, nv, ed, mu, fl, 0, One, 70, TRUE) :
        dl \in {5, 100}, nv \in {5, 100}, ed \in {0, 100}, mu \in {80, 85},
        fl \in {0, 60} }

----------------------------------------------------------------------------
(* The caller of QualityGateSystem: construct it, then evaluate snapshots *)

NoOutcome == [raised |-> FALSE, passed |-> FALSE, warning |-> NoWarning]

Init ==
    /\ pc = "new"
    /\ config_path \in ConfigPaths
    /\ gates = << >>
    /\ thresholds = << >>
    /\ metrics = QualityMetrics
    /\ gate = QualityGate("", FALSE, NoneT, 0)
    /\ outcome = NoOutcome
    /\ outcomes = << >>
    /\ risk_score = 0
    /\ passed_gates = << >>
    /\ failed_gates = << >>
    /\ warnings = << >>
    /\ decision = NoDecision
    /\ evals = 0
    /\ result_metrics = QualityMetrics
    /\ previous = NoResult
    /\ NotInMain
    /\ NotCollecting

\* QualityGateSystem(config_path): __init__
Construct ==
    /\ pc = "new"
    /\ LET r == _load_gates(config_path)
       IN  IF r.raised
           THEN /\ pc' = "raised"
                /\ UNCHANGED <<gates, thresholds>>
           ELSE /\ pc' = "ready"
                /\ gates' = r.value
                /\ thresholds' = InitThresholds
    /\ UNCHANGED <<config_path, metrics, gate, outcome, outcomes, risk_score,
                   passed_gates, failed_gates, warnings, decision, evals,
                   result_metrics, previous, main_vars, collector_vars>>

\* gate_system.evaluate(m) for a snapshot m of S, at most n calls
EvaluateOn(S, n) ==
    /\ pc = "ready"
    /\ evals < n
    /\ \E m \in S :
         LET r == evaluate(gates, thresholds, m)
         IN  /\ metrics' = m
             /\ result_metrics' = IF r.raised THEN result_metrics ELSE m
             /\ pc' = IF r.raised THEN "raised" ELSE "ready"
             /\ risk_score' = r.risk_score
             /\ outcomes' = r.outcomes
             /\ passed_gates' = r.passed_gates
             /\ failed_gates' = r.failed_gates
             /\ warnings' = r.warnings
             /\ decision' = r.decision
    /\ evals' = evals + 1
    /\ UNCHANGED <<config_path, gates, thresholds, gate, outcome, previous, main_vars, collector_vars>>

Evaluate == EvaluateOn(Snapshots, MaxEvals)

Next == Construct \/ Evaluate

Spec == Init /\ [][Next]_vars

----------------------------------------------------------------------------
(* evaluate on registries other than the default one.  self.gates is a plain
   list of QualityGate: a registry may name gates the evaluator does not
   know, mark gates optional and carry thresholds of any type. *)

DefaultThreshold(n) ==
    IF n = "mutation_testing" THEN FloatT(80)
    ELSE IF n = "sast_security" THEN FloatT(0)
    ELSE IF n = "contract_validation" THEN FloatT(One)
    ELSE IF n = "devirtualization_rate" THEN FloatT(60)
    ELSE IF n = "build_success" THEN BoolT(TRUE)
    ELSE NoneT

\* the gates a registry is made of: every known gate and one unknown gate,
\* required or optional, and three gates whose threshold is malformed
RegistryGates ==
    { QualityGate(n, r, DefaultThreshold(n), 10) :
        n \in KnownGateNames \cup {"license_check"}, r \in BOOLEAN }
    \cup { QualityGate("mutation_testing", TRUE, NoneT, 10),
           QualityGate("devirtualization_rate", FALSE, StrT, 10),
           QualityGate("build_success", TRUE, NoneT, 10) }

SeqsUpTo(S, n) == UNION { [1..k -> S] : k \in 1..n }

Registries == {default_gates} \cup SeqsUpTo(RegistryGates, MaxGates)

\* snapshots for these registries: every combination of passing and failing
\* gate metrics with risk inputs that take the score from 0.0 to 0.7
GateSnapshots ==
    { Snapshot(dl, nv, 0, mu, 0, ss, cp, dv, bs) :
        dl \in {0, 100}, nv \in {0, 100}, mu \in {0, 80, 100}, ss \in {0, 100},
        cp \in {99, 100}, dv \in {59, 60}, bs \in BOOLEAN }

InitGates ==
    /\ pc = "ready"
    /\ config_path = ConfigPath("none", << >>)
    /\ gates \in Registries
    /\ thresholds = InitThresholds
    /\ metrics = QualityMetrics
    /\ gate = QualityGate("", FALSE, NoneT, 0)
    /\ outcome = NoOutcome
    /\ outcomes = << >>
    /\ risk_score = 0
    /\ passed_gates = << >>
    /\ failed_gates = << >>
    /\ warnings = << >>
    /\ decision = NoDecision
    /\ evals = 0
    /\ result_metrics = QualityMetrics
    /\ previous = NoResult
    /\ NotInMain
    /\ NotCollecting

EvaluateGates == EvaluateOn(GateSnapshots, 1)

NextGates == EvaluateGates

SpecGates == InitGates /\ [][NextGates]_vars

----------------------------------------------------------------------------
(* _evaluate_gate as a function of one gate and one snapshot *)

ThresholdValues ==
    { FloatT(0), FloatT(60), FloatT(80), FloatT(One), BoolT(TRUE), BoolT(FALSE),
      NoneT, StrT }

GateInputs ==
    { QualityGate(n, r, t, 10) :
        n \in KnownGateNames \cup {"license_check"}, r \in BOOLEAN,
        t \in ThresholdValues }

GateMetrics ==
    { Snapshot(0, 0, 0, mu, 0, ss, cp, dv, bs) :
        mu \in {0, 79, 80, 100}, ss \in {0, 1, 100}, cp \in {0, 99, 100},
        dv \in {0, 59, 60, 100}, bs \in BOOLEAN }

InitGate ==
    /\ pc = "call"
    /\ config_path = ConfigPath("none", << >>)
    /\ gates = default_gates
    /\ thresholds = InitThresholds
    /\ metrics \in GateMetrics
    /\ gate \in GateInputs
    /\ outcome = NoOutcome
    /\ outcomes = << >>
    /\ risk_score = 0
    /\ passed_gates = << >>
    /\ failed_gates = << >>
    /\ warnings = << >>
    /\ decision = NoDecision
    /\ evals = 0
    /\ result_metrics = QualityMetrics
    /\ previous = NoResult
    /\ NotInMain
    /\ NotCollecting

\* self._evaluate_gate(gate, metrics)
CallEvaluateGate ==
    /\ pc = "call"
    /\ outcome' = _evaluate_gate(gate, metrics)
    /\ pc' = IF outcome'.raised THEN "raised" ELSE "return"
    /\ UNCHANGED <<config_path, gates, thresholds, metrics, gate, outcomes,
                   risk_score, passed_gates, failed_gates, warnings, decision, evals,
                   result_metrics, previous, main_vars, collector_vars>>

NextGate == CallEvaluateGate

SpecGate == InitGate /\ [][NextGate]_vars

----------------------------------------------------------------------------
(* _calculate_risk_score as a function of one snapshot, ratios in and out
   of [0, 1] *)

RiskMetrics ==
    { [QualityMetrics EXCEPT
          !.delta_loc = dl, !.novelty = nv, !.ext_dep_delta = ed, !.mutation = mu,
          !.flakiness = fl, !.static_severity = ss, !.test_coverage = tc,
          !.contract_pass_rate = cp, !.devirt_success_rate = dv,
          !.build_success = bs, !.parse_time_ms = ms, !.lift_time_ms = ms,
          !.memory_usage_mb = ms] :
        dl \in {0, 10, 100, 200}, nv \in {0, 20, 100, 200}, ed \in {-100, 0, 100},
        mu \in {0, 90, 100, 200}, fl \in {0, 100}, ss \in {0, 100},
        tc \in {0, 50}, cp \in {0, One}, dv \in {0, 70}, bs \in BOOLEAN,
        ms \in {0, 5} }

InitRisk ==
    /\ pc = "call"
    /\ config_path = ConfigPath("none", << >>)
    /\ gates = default_gates
    /\ thresholds = InitThresholds
    /\ metrics \in RiskMetrics
    /\ gate = QualityGate("", FALSE, NoneT, 0)
    /\ outcome = NoOutcome
    /\ outcomes = << >>
    /\ risk_score = 0
    /\ passed_gates = << >>
    /\ failed_gates = << >>
    /\ warnings = << >>
    /\ decision = NoDecision
    /\ evals = 0
    /\ result_metrics = QualityMetrics
    /\ previous = NoResult
    /\ NotInMain
    /\ NotCollecting

\* risk_score = self._calculate_risk_score(metrics)
CallCalculateRiskScore ==
    /\ pc = "call"
    /\ risk_score' = _calculate_risk_score(metrics)
    /\ pc' = "return"
    /\ UNCHANGED <<config_path, gates, thresholds, metrics, gate, outcome, outcomes,
                   passed_gates, failed_gates, warnings, decision, evals,
                   result_metrics, previous, main_vars, collector_vars>>

NextRisk == CallCalculateRiskScore

SpecRisk == InitRisk /\ [][NextRisk]_vars

----------------------------------------------------------------------------
(* _make_decision as a function of the registry's required flags, the risk
   score and the failed gates *)

\* the default registry with gate i required iff i is in R
WithRequired(R) ==
    [i \in 1..Len(default_gates) |-> [default_gates[i] EXCEPT !.required = i \in R]]

\* the names of the gates at the positions F, in registry order
RECURSIVE NamesAt(_, _)
NamesAt(F, i) ==
    IF i > Len(default_gates) THEN << >>
    ELSE IF i \in F THEN << default_gates[i].name >> \o NamesAt(F, i + 1)
    ELSE NamesAt(F, i + 1)

\* risk scores: the ends of [0, 1] and every thousandth within RiskNear of a
\* threshold
RiskValues ==
    {0, RiskOne}
    \cup { r \in 0..RiskOne :
             \E t \in {T_prop, T_manual} : r >= t - RiskNear /\ r <= t + RiskNear }

InitDecision ==
    /\ pc = "call"
    /\ config_path = ConfigPath("none", << >>)
    /\ gates \in { WithRequired(R) : R \in SUBSET (1..Len(default_gates)) }
    /\ thresholds = InitThresholds
    /\ metrics = QualityMetrics
    /\ gate = QualityGate("", FALSE, NoneT, 0)
    /\ outcome = NoOutcome
    /\ outcomes = << >>
    /\ risk_score \in RiskValues
    /\ passed_gates = << >>
    /\ failed_gates \in { NamesAt(F, 1) : F \in SUBSET (1..Len(default_gates)) }
    /\ warnings = << >>
    /\ decision = NoDecision
    /\ evals = 0
    /\ result_metrics = QualityMetrics
    /\ previous = NoResult
    /\ NotInMain
    /\ NotCollecting

\* decision = self._make_decision(risk_score, failed_gates, metrics)
CallMakeDecision ==
    /\ pc = "call"
    /\ decision' = _make_decision(gates, thresholds, risk_score, failed_gates)
    /\ pc' = "return"
    /\ UNCHANGED <<config_path, gates, thresholds, metrics, gate, outcome, outcomes,
                   risk_score, passed_gates, failed_gates, warnings, evals,
                   result_metrics, previous, main_vars, collector_vars>>

NextDecision == CallMakeDecision

SpecDecision == InitDecision /\ [][NextDecision]_vars

----------------------------------------------------------------------------
(* main: the try block that collects the metrics, constructs the
   QualityGateSystem, evaluates, writes the output file when asked to and
   exits; except Exception exits with 3.  sys.exit raises SystemExit, which
   is not an Exception, so the handler never sees the exits of the try
   block. *)

\* what the external commands of one run can do
ToolRuns ==
    { Tools(gs, RunOk(TRUE, 1000, 0), gn, gp, mu, cv, au, bu, RunOk(FALSE, 0, 0), dv, ct) :
        gs \in {RunRaises, RunOk(TRUE, 50, 0), RunOk(TRUE, 3000, 0)},
        gn \in {RunOk(TRUE, 1, 20), RunOk(TRUE, 1, 1)},
        gp \in {RunOk(FALSE, 0, 1), RunOk(TRUE, 2, 1)},
        mu \in {RunRaises, RunFails, RunOk(TRUE, 85, 0), RunOk(TRUE, 150, 0)},
        cv \in {RunOk(TRUE, 90, 0), RunOk(TRUE, 250, 0)},
        au \in {RunRaises, RunOk(FALSE, 0, 0)},
        bu \in {RunRaises, RunOk(FALSE, 0, 0)},
        dv \in {RunFails, RunOk(TRUE, 70, 0), RunOk(TRUE, 250, 0)},
        ct \in {RunRaises, RunFails, RunOk(FALSE, 0, 0), RunOk(TRUE, 0, 0),
                RunOk(TRUE, 10, 10), RunOk(TRUE, 12, 10)} }

\* args.config: absent, or a path under a directory that may not be searched
MainConfigPaths == { ConfigPath(k, << >>) : k \in {"none", "inaccessible"} }

\* args.output: absent, a path that can be written, a path open() refuses
Outputs == {"none", "writable", "unwritable"}

\* with open(args.output, 'w') raises
OutputWriteRaises(o) == o = "unwritable"

\* variant: the codes of the first two decisions exchanged
ExitCodeOf_swapped(d) ==
    IF d = PROMOTE THEN 1 ELSE IF d = MANUAL_QA THEN 0 ELSE 2

\* the status main exits with for a decision
ExitCodeOf(d) ==
    IF d = PROMOTE THEN 0 ELSE IF d = MANUAL_QA THEN 1 ELSE 2

InitMain ==
    /\ pc = "main"
    /\ tools \in ToolRuns
    /\ config_path \in MainConfigPaths
    /\ output \in Outputs
    /\ exit_code = NoExit
    /\ NotCollecting
    /\ gates = << >>
    /\ thresholds = << >>
    /\ metrics = QualityMetrics
    /\ gate = QualityGate("", FALSE, NoneT, 0)
    /\ outcome = NoOutcome
    /\ outcomes = << >>
    /\ risk_score = 0
    /\ passed_gates = << >>
    /\ failed_gates = << >>
    /\ warnings = << >>
    /\ decision = NoDecision
    /\ evals = 0
    /\ result_metrics = QualityMetrics
    /\ previous = NoResult

\* metrics = collector.collect()
MainCollect ==
    /\ pc = "main"
    /\ metrics' = collect(tools)
    /\ pc' = "collected"
    /\ UNCHANGED <<config_path, gates, thresholds, gate, outcome, outcomes,
                   risk_score, passed_gates, failed_gates, warnings, decision, evals,
                   result_metrics, previous, main_vars, collector_vars>>

\* gate_system = QualityGateSystem(args.config); an exception reaches the
\* handler of main
MainConstruct ==
    /\ pc = "collected"
    /\ LET r == _load_gates(config_path)
       IN  IF r.raised
           THEN /\ pc' = "exited"
                /\ exit_code' = 3
                /\ UNCHANGED <<gates, thresholds>>
           ELSE /\ pc' = "constructed"
                /\ gates' = r.value
                /\ thresholds' = InitThresholds
                /\ UNCHANGED exit_code
    /\ UNCHANGED <<config_path, metrics, gate, outcome, outcomes, risk_score,
                   passed_gates, failed_gates, warnings, decision, evals,
                   result_metrics, previous, tools, output, collector_vars>>

\* result = gate_system.evaluate(metrics)
MainEvaluate ==
    /\ pc = "constructed"
    /\ LET r == evaluate(gates, thresholds, metrics)
       IN  IF r.raised
           THEN /\ pc' = "exited"
                /\ exit_code' = 3
                /\ UNCHANGED <<risk_score, outcomes, passed_gates, failed_gates,
                               warnings, decision, result_metrics>>
           ELSE /\ pc' = "evaluated"
                /\ risk_score' = r.risk_score
                /\ outcomes' = r.outcomes
                /\ passed_gates' = r.passed_gates
                /\ failed_gates' = r.failed_gates
                /\ warnings' = r.warnings
                /\ decision' = r.decision
                /\ result_metrics' = metrics
                /\ UNCHANGED exit_code
    /\ evals' = evals + 1
    /\ UNCHANGED <<config_path, gates, thresholds, metrics, gate, outcome,
                   previous, tools, output, collector_vars>>

\* the rest of the try block: the output file when args.output is given,
\* then sys.exit with the code of the decision
MainReport ==
    /\ pc = "evaluated"
    /\ pc' = "exited"
    /\ exit_code' = IF output # "none" /\ OutputWriteRaises(output)
                    THEN 3
                    ELSE ExitCodeOf(decision)
    /\ UNCHANGED <<config_path, gates, thresholds, metrics, gate, outcome, outcomes,
                   risk_score, passed_gates, failed_gates, warnings, decision, evals,
                   result_metrics, previous, tools, output, collector_vars>>

NextMain == MainCollect \/ MainConstruct \/ MainEvaluate \/ MainReport

SpecMain == InitMain /\ [][NextMain]_vars

----------------------------------------------------------------------------
(* A caller that keeps one QualityGateSystem, builds a snapshot, hands it to
   evaluate, keeps the result, and does so again *)

\* the default registry, and the same gates all optional
CallRegistries ==
    { default_gates,
      [i \in 1..Len(default_gates) |-> [default_gates[i] EXCEPT !.required = FALSE]] }

\* snapshots of the caller: pairs of them differ and have the same risk score
\* and the same gate outcomes
CallSnapshots ==
    { [Snapshot(dl, nv, One, mu, fl, 0, One, 70, TRUE) EXCEPT !.test_coverage = tc] :
        dl \in {5, 100}, nv \in {5, 100}, mu \in {79, 85}, fl \in {0, 60},
        tc \in {0, 90} }

\* the GatekeeperResult the caller holds
HeldResult ==
    [valid |-> evals > 0, metrics |-> result_metrics, decision |-> decision,
     risk_score |-> risk_score, passed_gates |-> passed_gates,
     failed_gates |-> failed_gates, warnings |-> warnings]

InitCalls ==
    /\ pc = "ready"
    /\ config_path = ConfigPath("none", << >>)
    /\ gates \in CallRegistries
    /\ thresholds = InitThresholds
    /\ metrics = QualityMetrics
    /\ gate = QualityGate("", FALSE, NoneT, 0)
    /\ outcome = NoOutcome
    /\ outcomes = << >>
    /\ risk_score = 0
    /\ passed_gates = << >>
    /\ failed_gates = << >>
    /\ warnings = << >>
    /\ decision = NoDecision
    /\ evals = 0
    /\ result_metrics = QualityMetrics
    /\ previous = NoResult
    /\ NotInMain
    /\ NotCollecting

\* the caller builds the QualityMetrics object it is going to pass
TakeSnapshot ==
    /\ pc = "ready"
    /\ evals < MaxEvals
    /\ metrics' \in CallSnapshots
    /\ pc' = "call"
    /\ UNCHANGED <<config_path, gates, thresholds, gate, outcome, outcomes,
                   risk_score, passed_gates, failed_gates, warnings, decision, evals,
                   result_metrics, previous, main_vars, collector_vars>>

\* variant: evaluate dropping from self.gates the gates that failed
CallEvaluate_consume ==
    /\ pc = "call"
    /\ LET r == evaluate(gates, thresholds, metrics)
       IN  /\ pc' = IF r.raised THEN "raised" ELSE "ready"
           /\ risk_score' = r.risk_score
           /\ outcomes' = r.outcomes
           /\ passed_gates' = r.passed_gates
           /\ failed_gates' = r.failed_gates
           /\ warnings' = r.warnings
           /\ decision' = r.decision
           /\ gates' = SelectSeq(gates, LAMBDA g : ~InList(g.name, r.failed_gates))
    /\ result_metrics' = metrics
    /\ previous' = HeldResult
    /\ evals' = evals + 1
    /\ UNCHANGED <<config_path, thresholds, metrics, gate, outcome, main_vars, collector_vars>>

\* result = gate_system.evaluate(metrics); the result held before is kept
\* aside.  evaluate assigns to no attribute of self and to no field of
\* metrics, and stores the object it was given in the result.
CallEvaluate ==
    /\ pc = "call"
    /\ LET r == evaluate(gates, thresholds, metrics)
       IN  /\ pc' = IF r.raised THEN "raised" ELSE "ready"
           /\ risk_score' = r.risk_score
           /\ outcomes' = r.outcomes
           /\ passed_gates' = r.passed_gates
           /\ failed_gates' = r.failed_gates
           /\ warnings' = r.warnings
           /\ decision' = r.decision
    /\ result_metrics' = metrics
    /\ previous' = HeldResult
    /\ evals' = evals + 1
    /\ UNCHANGED <<config_path, gates, thresholds, metrics, gate, outcome, main_vars, collector_vars>>

NextCalls == TakeSnapshot \/ CallEvaluate

SpecCalls == InitCalls /\ [][NextCalls]_vars

----------------------------------------------------------------------------
(* _calculate_risk_score on two snapshots that differ in one input: the score
   of a snapshot is computed, one of the six inputs of the formula is raised,
   and the score is computed again *)

\* the six fields _calculate_risk_score reads
RiskFields ==
    {"delta_loc", "novelty", "ext_dep_delta", "mutation", "flakiness",
     "static_severity"}

\* values of an input, one of them above 1.0 so that the clamp is reached
RiskInputValues == {0, 40, 100, 150}

RiskPairMetrics ==
    { Snapshot(dl, nv, ed, mu, fl, ss, One, 70, TRUE) :
        dl \in RiskInputValues, nv \in RiskInputValues, ed \in RiskInputValues,
        mu \in RiskInputValues, fl \in RiskInputValues, ss \in RiskInputValues }

InitRiskPair ==
    /\ pc = "call"
    /\ config_path = ConfigPath("none", << >>)
    /\ gates = default_gates
    /\ thresholds = InitThresholds
    /\ metrics \in RiskPairMetrics
    /\ gate = QualityGate("", FALSE, NoneT, 0)
    /\ outcome = NoOutcome
    /\ outcomes = << >>
    /\ risk_score = 0
    /\ passed_gates = << >>
    /\ failed_gates = << >>
    /\ warnings = << >>
    /\ decision = NoDecision
    /\ evals = 0
    /\ result_metrics = QualityMetrics
    /\ previous = NoResult
    /\ NotInMain
    /\ NotCollecting

\* the caller keeps the score and the snapshot aside and builds a snapshot
\* with one input higher
RaiseOneInput ==
    /\ pc = "return"
    /\ ~previous.valid
    /\ previous' = [NoResult EXCEPT !.valid = TRUE, !.metrics = metrics,
                                    !.risk_score = risk_score]
    /\ \E f \in RiskFields : \E v \in RiskInputValues :
          /\ v > metrics[f]
          /\ metrics' = [metrics EXCEPT ![f] = v]
    /\ pc' = "call"
    /\ UNCHANGED <<config_path, gates, thresholds, gate, outcome, outcomes,
                   risk_score, passed_gates, failed_gates, warnings, decision, evals,
                   result_metrics, main_vars, collector_vars>>

NextRiskPair == CallCalculateRiskScore \/ RaiseOneInput

SpecRiskPair == InitRiskPair /\ [][NextRiskPair]_vars

----------------------------------------------------------------------------
(* SpecGithub: one call of collect_from_github, one action per iteration
   of its loop over the queries, against every answer of the server. *)

\* texts the server can deliver: three acceptable ones with different
\* hashes, one too short, one the detector does not find obfuscated
GithubContents ==
    {Sample(h, DefaultMinSize, 40, "", TRUE) : h \in 1..3}
        \cup {Sample(1, DefaultMinSize - 1, 40, "", TRUE),
              Sample(2, DefaultMinSize, 30, "", TRUE)}

\* the items a search response can carry
GithubItems ==
    {Item(TRUE, "ok", c) : c \in GithubContents}
        \cup {Item(FALSE, "ok", Sample(3, DefaultMinSize, 40, "", TRUE)),
              Item(TRUE, "status", Sample(3, DefaultMinSize, 40, "", TRUE)),
              Item(TRUE, "raise", Sample(3, DefaultMinSize, 40, "", TRUE))}

SearchResponses ==
    {SearchResponse("status", << >>), SearchResponse("raise", << >>),
     SearchResponse("ok", << >>)}
        \cup {SearchResponse("ok", items) : items \in SeqsUpTo(GithubItems, MaxItems)}

InitGithub ==
    /\ pc = "github"
    /\ NoGatekeeper
    /\ config \in {CollectionConfig(cap, DefaultMinSize, DefaultMaxSize, TRUE, TRUE, TRUE) :
                     cap \in 1..MaxCap}
    /\ sources \in {Sources(aio, sess, Raises, Raises, Raises) :
                      aio \in BOOLEAN, sess \in BOOLEAN}
    /\ samples = << >>
    /\ filtered = << >>
    /\ collected_hashes \in {{}, {1}}
    /\ events = << >>
    /\ query = 0

\* the entry of collect_from_github: [] without aiohttp, RuntimeError
\* without a session, otherwise samples = [] and the loop starts
GithubStart ==
    /\ pc = "github"
    /\ pc' = IF ~sources.aiohttp THEN "returned"
             ELSE IF ~sources.session THEN "raised"
             ELSE "queries"
    /\ samples' = << >>
    /\ UNCHANGED <<gatekeeper_vars, config, sources, filtered,
                   collected_hashes, events, query>>

\* one iteration of "for query in queries"; events holds what this
\* iteration sent
GithubQuery ==
    /\ pc = "queries"
    /\ query < NumQueries
    /\ \E resp \in SearchResponses :
         LET r == QueryIteration(config,
                                 [samples |-> samples, hashes |-> collected_hashes,
                                  events |-> events], resp)
         IN  /\ samples' = r.samples
             /\ collected_hashes' = r.hashes
             /\ events' = r.events
    /\ query' = query + 1
    /\ UNCHANGED <<pc, gatekeeper_vars, config, sources, filtered>>

\* return samples, after the last query
GithubReturn ==
    /\ pc = "queries"
    /\ query = NumQueries
    /\ pc' = "returned"
    /\ UNCHANGED <<gatekeeper_vars, collector_vars>>

NextGithub == GithubStart \/ GithubQuery \/ GithubReturn

SpecGithub == InitGithub /\ [][NextGithub]_vars

----------------------------------------------------------------------------
(* SpecFilter: filter_and_deduplicate applied to every short list of
   samples around the limits of its filters. *)

\* 0.1 if sample.metadata.get('source') == 'synthetic' else 0.3, in hundredths
MinThreshold(s) == IF s.source = "synthetic" THEN 10 ELSE 30

\* the size, quality and syntax filters of filter_and_deduplicate
PassesFilters(cfg, s) ==
    /\ cfg.min_file_size <= s.file_size
    /\ s.file_size <= cfg.max_file_size
    /\ ~(s.overall_score < MinThreshold(s))
    /\ s.valid_js

\* variant: the hash is marked as seen before the filters are applied
FilterStep_mark_first(cfg, acc, s) ==
    IF s.file_hash \in acc.seen_hashes THEN acc
    ELSE IF ~PassesFilters(cfg, s)
    THEN [acc EXCEPT !.seen_hashes = @ \cup {s.file_hash}]
    ELSE [filtered |-> Append(acc.filtered, s),
          seen_hashes |-> acc.seen_hashes \cup {s.file_hash}]

\* the body of the loop of filter_and_deduplicate for one sample
FilterStep(cfg, acc, s) ==
    IF s.file_hash \in acc.seen_hashes THEN acc
    ELSE IF ~PassesFilters(cfg, s) THEN acc
    ELSE [filtered |-> Append(acc.filtered, s),
          seen_hashes |-> acc.seen_hashes \cup {s.file_hash}]

RECURSIVE FilterLoop(_, _, _, _)
FilterLoop(cfg, list, i, acc) ==
    IF i > Len(list) THEN acc
    ELSE FilterLoop(cfg, list, i + 1, FilterStep(cfg, acc, list[i]))

\* filter_and_deduplicate(samples)
filter_and_deduplicate(cfg, list) ==
    FilterLoop(cfg, list, 1, [filtered |-> << >>, seen_hashes |-> {}]).filtered

\* samples on both sides of every filter, for two hashes
FilterSamples ==
    UNION {{Sample(h, DefaultMinSize, 30, "github", TRUE),
            Sample(h, DefaultMinSize - 1, 30, "github", TRUE),
            Sample(h, DefaultMaxSize, 30, "github", TRUE),
            Sample(h, DefaultMaxSize + 1, 30, "github", TRUE),
            Sample(h, DefaultMinSize, 29, "github", TRUE),
            Sample(h, DefaultMinSize, 10, "synthetic", TRUE),
            Sample(h, DefaultMinSize, 9, "synthetic", TRUE),
            Sample(h, DefaultMinSize, 30, "github", FALSE)} : h \in 1..2}

InitFilter ==
    /\ pc = "filter"
    /\ NoGatekeeper
    /\ config = CollectionConfig(50, DefaultMinSize, DefaultMaxSize, TRUE, TRUE, TRUE)
    /\ sources = Sources(TRUE, TRUE, Raises, Raises, Raises)
    /\ samples \in {<< >>} \cup SeqsUpTo(FilterSamples, MaxSamples)
    /\ filtered = << >>
    /\ collected_hashes = {}
    /\ events = << >>
    /\ query = 0

\* filtered_samples = self.filter_and_deduplicate(all_samples)
CallFilter ==
    /\ pc = "filter"
    /\ pc' = "filtered"
    /\ filtered' = filter_and_deduplicate(config, samples)
    /\ UNCHANGED <<gatekeeper_vars, config, sources, samples,
                   collected_hashes, events, query>>

NextFilter == CallFilter

SpecFilter == InitFilter /\ [][NextFilter]_vars

----------------------------------------------------------------------------
(* SpecSources: collect_all_sources, one action per source block and one
   for the final filter.  events lists the sources attempted and the call
   of filter_and_deduplicate, samples is all_samples. *)

\* variant: a source that raises empties all_samples
AttemptSource_discard(all, out) ==
    IF out.raises THEN << >> ELSE all \o out.value

\* try: all_samples.extend(await self.collect_from_X())
\* except Exception: logger.error(...)
AttemptSource(all, out) ==
    IF out.raises THEN all ELSE all \o out.value

\* what collect_from_github can hand back, and collect_from_academic_datasets:
\* samples that pass the filters, one that does not, one hash in both
GithubLists ==
    {<< >>,
     << Sample(1, DefaultMinSize, 40, "github", TRUE) >>,
     << Sample(1, DefaultMinSize, 40, "github", TRUE),
        Sample(3, DefaultMinSize, 40, "github", FALSE) >>}
AcademicLists ==
    {<< Sample(2, DefaultMinSize, 20, "synthetic", TRUE) >>,
     << Sample(1, DefaultMinSize, 40, "synthetic", TRUE),
        Sample(2, DefaultMinSize, 20, "synthetic", TRUE) >>}

\* the outcomes of the three sources for a collector with or without
\* aiohttp and a session: collect_from_malware_bazaar raises without a
\* session and returns [] with one; collect_from_github returns [] without
\* aiohttp, raises without a session and returns its samples otherwise;
\* collect_from_academic_datasets returns its samples unless building them
\* raises
SourceOutcomes ==
    {Sources(aio, sess, mb, gh, ac) :
        aio \in BOOLEAN, sess \in BOOLEAN,
        mb \in {Raises, Returns(<< >>)},
        gh \in {Raises} \cup {Returns(l) : l \in GithubLists},
        ac \in {Raises} \cup {Returns(l) : l \in AcademicLists}}

InitSources ==
    /\ pc = "malwarebazaar"
    /\ NoGatekeeper
    /\ config \in {CollectionConfig(50, DefaultMinSize, DefaultMaxSize, mb, gh, ac) :
                     mb \in BOOLEAN, gh \in BOOLEAN, ac \in BOOLEAN}
    /\ sources \in {s \in SourceOutcomes :
                      /\ s.mb.raises <=> ~s.session
                      /\ ~s.aiohttp => s.gh = Returns(<< >>)
                      /\ s.aiohttp => (s.gh.raises <=> ~s.session)}
    /\ samples = << >>
    /\ filtered = << >>
    /\ collected_hashes = {}
    /\ events = << >>
    /\ query = 0

\* if self.config.enable_malwarebazaar_collection: try ... except
CollectMalwareBazaar ==
    /\ pc = "malwarebazaar"
    /\ pc' = "github"
    /\ IF config.enable_malwarebazaar_collection
       THEN /\ events' = Append(events, "malwarebazaar")
            /\ samples' = AttemptSource(samples, sources.mb)
       ELSE UNCHANGED <<events, samples>>
    /\ UNCHANGED <<gatekeeper_vars, config, sources, filtered, collected_hashes, query>>

\* if self.config.enable_github_collection: try ... except
CollectGithub ==
    /\ pc = "github"
    /\ pc' = "academic"
    /\ IF config.enable_github_collection
       THEN /\ events' = Append(events, "github")
            /\ samples' = AttemptSource(samples, sources.gh)
       ELSE UNCHANGED <<events, samples>>
    /\ UNCHANGED <<gatekeeper_vars, config, sources, filtered, collected_hashes, query>>

\* if self.config.enable_academic_collection: try ... except
CollectAcademic ==
    /\ pc = "academic"
    /\ pc' = "filter"
    /\ IF config.enable_academic_collection
       THEN /\ events' = Append(events, "academic")
            /\ samples' = AttemptSource(samples, sources.ac)
       ELSE UNCHANGED <<events, samples>>
    /\ UNCHANGED <<gatekeeper_vars, config, sources, filtered, collected_hashes, query>>

\* filtered_samples = self.filter_and_deduplicate(all_samples); return
CollectFilter ==
    /\ pc = "filter"
    /\ pc' = "done"
    /\ events' = Append(events, "filter")
    /\ filtered' = filter_and_deduplicate(config, samples)
    /\ UNCHANGED <<gatekeeper_vars, config, sources, samples, collected_hashes, query>>

NextSources == CollectMalwareBazaar \/ CollectGithub \/ CollectAcademic \/ CollectFilter

SpecSources == InitSources /\ [][NextSources]_vars

----------------------------------------------------------------------------
(* Properties *)

\* an evaluate call has returned
Evaluated == pc = "ready" /\ evals > 0

\* some gate marked required has a failing outcome
SomeRequiredGateFailed ==
    \E i \in 1..Len(outcomes) : gates[i].required /\ ~outcomes[i].passed

\* C1: whenever a gate marked required has a failing outcome, evaluate returns
\* AGENT_REFINE, whatever the snapshot and the risk score (0.0 included).
C1_RequiredGateOverride ==
    (Evaluated /\ SomeRequiredGateFailed) => decision = AGENT_REFINE

\* C1 witness: the default registry, risk score 0.0 and a failed build
C1_Witness ==
    /\ Evaluated
    /\ gates = default_gates
    /\ risk_score = 0
    /\ ~metrics.build_success
    /\ failed_gates = << "build_success" >>
    /\ decision = AGENT_REFINE

\* _make_decision was given a failed gate that the registry marks required
RequiredGateInFailed ==
    \E i \in 1..Len(gates) :
        gates[i].required /\ (\E j \in 1..Len(failed_gates) : failed_gates[j] = gates[i].name)

\* C2: with no required gate among the failed ones, _make_decision returns
\* Refine iff risk >= 0.70, ManualQA iff 0.50 <= risk < 0.70 and Promote iff
\* risk < 0.50 (0.700 Refine, 0.699 ManualQA, 0.500 ManualQA, 0.499 Promote).
C2_RiskThresholds ==
    (pc = "return" /\ ~RequiredGateInFailed) =>
        /\ decision = AGENT_REFINE <=> risk_score >= 700
        /\ decision = MANUAL_QA <=> (risk_score >= 500 /\ risk_score < 700)
        /\ decision = PROMOTE <=> risk_score < 500

\* C2 witness: an optional gate failed and the risk score is exactly 0.50
C2_Witness ==
    /\ pc = "return"
    /\ ~RequiredGateInFailed
    /\ failed_gates # << >>
    /\ risk_score = 500
    /\ decision = MANUAL_QA

\* the six ratio inputs of the risk formula lie in [0, 1]
RatiosInRange ==
    \A v \in {metrics.delta_loc, metrics.novelty, metrics.ext_dep_delta,
              metrics.mutation, metrics.flakiness, metrics.static_severity} :
        v >= 0 /\ v <= 100

\* 0.2*delta_loc + 0.2*novelty + 0.2*ext_dep_delta + 0.2*(1 - mutation)
\* + 0.1*flakiness + 0.1*static_severity of the snapshot, in thousandths
WeightedSum ==
    2 * metrics.delta_loc + 2 * metrics.novelty + 2 * metrics.ext_dep_delta
    + 2 * (100 - metrics.mutation) + metrics.flakiness + metrics.static_severity

\* C3: for ratios in [0, 1] the risk score is the weighted sum of the six
\* inputs, weights 0.2, 0.2, 0.2, 0.2 (on 1 - mutation), 0.1, 0.1, whatever the
\* other fields of the snapshot hold; delta_loc 0.1, novelty 0.2, mutation 0.9
\* and the rest 0 give 0.08.
C3_RiskFormula ==
    (pc = "return" /\ RatiosInRange) =>
        /\ risk_score = WeightedSum
        /\ (/\ metrics.delta_loc = 10 /\ metrics.novelty = 20
            /\ metrics.ext_dep_delta = 0 /\ metrics.mutation = 90
            /\ metrics.flakiness = 0 /\ metrics.static_severity = 0)
           => risk_score = 80

\* C3 witness: the example snapshot, with the fields outside the formula set
C3_Witness ==
    /\ pc = "return"
    /\ metrics.delta_loc = 10 /\ metrics.novelty = 20 /\ metrics.ext_dep_delta = 0
    /\ metrics.mutation = 90 /\ metrics.flakiness = 0 /\ metrics.static_severity = 0
    /\ metrics.test_coverage = 50 /\ ~metrics.build_success
    /\ metrics.contract_pass_rate = 0 /\ metrics.parse_time_ms = 5
    /\ risk_score = 80

\* C4: the risk score lies in [0, 1] for every snapshot, is exactly 1.0 when
\* the weighted sum exceeds 1.0 and exactly 0.0 when it is below 0.0.
C4_Clamping ==
    pc = "return" =>
        /\ risk_score >= 0 /\ risk_score <= 1000
        /\ WeightedSum > 1000 => risk_score = 1000
        /\ WeightedSum < 0 => risk_score = 0

\* C4 witness: out-of-range ratios whose weighted sum exceeds 1.0
C4_Witness ==
    /\ pc = "return"
    /\ metrics.delta_loc = 200 /\ metrics.novelty = 200
    /\ WeightedSum > 1000
    /\ risk_score = 1000

\* the pass condition of the comparison table for a known gate whose
\* threshold is a number
TablePass(g, m) ==
    CASE g.name = "mutation_testing" -> m.mutation >= g.threshold.num
      [] g.name = "sast_security" -> m.static_severity <= g.threshold.num
      [] g.name = "contract_validation" -> m.contract_pass_rate >= g.threshold.num
      [] g.name = "devirtualization_rate" -> m.devirt_success_rate >= g.threshold.num
      [] g.name = "build_success" ->
            (m.build_success /\ g.threshold.num = 100)
            \/ (~m.build_success /\ g.threshold.num = 0)

\* the metric field a ratio gate compares
OwnMetric(g, m) ==
    CASE g.name = "mutation_testing" -> m.mutation
      [] g.name = "sast_security" -> m.static_severity
      [] g.name = "contract_validation" -> m.contract_pass_rate
      [] g.name = "devirtualization_rate" -> m.devirt_success_rate

\* C5: _evaluate_gate passes mutation_testing iff mutation >= threshold,
\* sast_security iff static_severity <= threshold, contract_validation iff
\* contract_pass_rate >= threshold, devirtualization_rate iff
\* devirt_success_rate >= threshold, build_success iff build_success equals the
\* threshold (true); a ratio equal to its threshold passes; no other field of
\* the snapshot takes part.
C5_GateTable ==
    (pc = "return" /\ gate.name \in KnownGateNames /\ IsNumber(gate.threshold)) =>
        /\ outcome.passed <=> TablePass(gate, metrics)
        /\ (gate.name # "build_success" /\ OwnMetric(gate, metrics) = gate.threshold.num)
              => outcome.passed
        /\ (gate.name = "build_success" /\ gate.threshold = BoolT(TRUE))
              => (outcome.passed <=> metrics.build_success)

\* C5 witness: a mutation score exactly at the threshold 0.80 passes
C5_Witness ==
    /\ pc = "return"
    /\ gate.name = "mutation_testing"
    /\ gate.threshold = FloatT(80)
    /\ metrics.mutation = 80
    /\ metrics.static_severity = 100
    /\ outcome.passed

\* the list holds the name
Holds(list, n) == \E k \in 1..Len(list) : list[k] = n

\* C6: a registry gate whose name is not one of the five known names does not
\* make evaluate raise; its name is put in passed_gates and never in
\* failed_gates, and warnings holds an entry recording the name; this for
\* every snapshot, the gate required or not.
C6_UnknownGateTolerance ==
    /\ (evals > 0 /\ \E i \in 1..Len(gates) : gates[i].name \notin KnownGateNames)
          => pc # "raised"
    /\ Evaluated =>
          \A i \in 1..Len(gates) :
              gates[i].name \notin KnownGateNames =>
                  /\ outcomes[i].passed
                  /\ Holds(passed_gates, gates[i].name)
                  /\ ~Holds(failed_gates, gates[i].name)
                  /\ \E k \in 1..Len(warnings) :
                        /\ warnings[k].kind = "unknown_gate"
                        /\ warnings[k].name = gates[i].name

\* C6 witness: a required unknown gate passes beside a known gate that fails
C6_Witness ==
    /\ Evaluated
    /\ Len(gates) = 2
    /\ gates[2].name = "license_check" /\ gates[2].required
    /\ passed_gates = << "license_check" >>
    /\ failed_gates = << gates[1].name >>
    /\ warnings[Len(warnings)].kind = "unknown_gate"

\* evaluating the gate raises inside _evaluate_gate: a ratio gate whose
\* threshold is not a number
GateErrors(g) ==
    /\ g.name \in KnownGateNames \ {"build_success"}
    /\ g.threshold.kind \in {"none", "str"}

\* no two gates of the registry share a name
UniqueNames ==
    \A i, j \in 1..Len(gates) : gates[i].name = gates[j].name => i = j

\* C7: a known gate whose evaluation hits an internal error (a threshold that
\* is None or of a wrong type) is marked failed with a diagnostic message and
\* is not reported as passed; evaluate does not raise, and every other gate
\* gets the outcome it has on its own.
C7_ConservativeGateErrors ==
    /\ (evals > 0 /\ \E i \in 1..Len(gates) : GateErrors(gates[i])) => pc # "raised"
    /\ Evaluated =>
          /\ Len(outcomes) = Len(gates)
          /\ Len(passed_gates) + Len(failed_gates) = Len(gates)
          /\ \A i \in 1..Len(gates) :
                /\ GateErrors(gates[i]) =>
                      /\ ~outcomes[i].passed
                      /\ outcomes[i].warning.kind = "error"
                      /\ Holds(failed_gates, gates[i].name)
                      /\ Holds(warnings, outcomes[i].warning)
                      /\ UniqueNames => ~Holds(passed_gates, gates[i].name)
                /\ (gates[i].name \in KnownGateNames /\ IsNumber(gates[i].threshold)) =>
                      (outcomes[i].passed <=> TablePass(gates[i], metrics))
                /\ gates[i].name \notin KnownGateNames => outcomes[i].passed

\* C7 witness: the first gate errs and fails, the second one still passes
C7_Witness ==
    /\ Evaluated
    /\ Len(gates) = 2
    /\ GateErrors(gates[1])
    /\ gates[2].name = "contract_validation"
    /\ failed_gates = << gates[1].name >>
    /\ passed_gates = << "contract_validation" >>
    /\ outcomes[1].warning.kind = "error"

\* C8 as stated: every non-passing outcome of _evaluate_gate carries a message
\* that identifies the measured value and the threshold it missed, build_success
\* and error outcomes included; a passing outcome carries no message unless the
\* gate name was unrecognized.
C8_MessageShowsValueAndThreshold ==
    pc = "return" =>
        /\ ~outcome.passed => (Truthy(outcome.warning) /\ outcome.warning.shown)
        /\ outcome.passed =>
              (Truthy(outcome.warning) <=> gate.name \notin KnownGateNames)

\* C8 amended: every non-passing outcome carries a message.  For the four
\* ratio gates with a numeric threshold it shows the measured value and the
\* threshold; for build_success it is the fixed text "Build failed or tests not
\* passing" and for an error outcome "Gate evaluation error: <exception>",
\* neither showing value or threshold.  A passing outcome carries no message
\* unless the gate name was unrecognized.
C8_MessagePolicy ==
    pc = "return" =>
        /\ ~outcome.passed =>
              /\ Truthy(outcome.warning)
              /\ (gate.name \in KnownGateNames \ {"build_success"} /\ IsNumber(gate.threshold))
                    => /\ outcome.warning.kind \in {"below", "above"}
                       /\ outcome.warning.shown
                       /\ outcome.warning.value = OwnMetric(gate, metrics)
                       /\ outcome.warning.threshold = gate.threshold
              /\ gate.name = "build_success"
                    => (outcome.warning.kind = "build_failed" /\ ~outcome.warning.shown)
              /\ GateErrors(gate)
                    => (outcome.warning.kind = "error" /\ ~outcome.warning.shown)
        /\ outcome.passed =>
              (Truthy(outcome.warning) <=> gate.name \notin KnownGateNames)
        /\ (outcome.passed /\ gate.name \notin KnownGateNames)
              => outcome.warning.kind = "unknown_gate"

\* C8 witness: a failed build gate with its fixed message
C8_Witness ==
    /\ pc = "return"
    /\ gate.name = "build_success"
    /\ gate.threshold = BoolT(TRUE)
    /\ ~metrics.build_success
    /\ ~outcome.passed
    /\ outcome.warning = MsgBuildFailed

\* the five-gate table of the registry, written out
FiveGateTable ==
    << [name |-> "mutation_testing", required |-> TRUE,
        threshold |-> [kind |-> "float", num |-> 80], weight |-> 3],
       [name |-> "sast_security", required |-> TRUE,
        threshold |-> [kind |-> "float", num |-> 0], weight |-> 2],
       [name |-> "contract_validation", required |-> TRUE,
        threshold |-> [kind |-> "float", num |-> 100], weight |-> 2],
       [name |-> "devirtualization_rate", required |-> TRUE,
        threshold |-> [kind |-> "float", num |-> 60], weight |-> 2],
       [name |-> "build_success", required |-> TRUE,
        threshold |-> [kind |-> "bool", num |-> 100], weight |-> 1] >>

\* what evaluate returns for the snapshot on the registry gs
ResultOn(gs) == evaluate(gs, InitThresholds, metrics)

\* the result held is the one evaluate gives on the registry gs
ResultIsOn(gs) ==
    /\ decision = ResultOn(gs).decision
    /\ risk_score = ResultOn(gs).risk_score
    /\ passed_gates = ResultOn(gs).passed_gates
    /\ failed_gates = ResultOn(gs).failed_gates
    /\ warnings = ResultOn(gs).warnings

\* C9: for a configuration source that exists and parses, whatever gates it
\* lists, the registry is the default five-gate table and evaluate returns what
\* it returns without a configuration.
C9_OverrideNotApplied ==
    (pc # "new" /\ config_path.kind = "ok") =>
        /\ pc = "ready"
        /\ gates = FiveGateTable
        /\ evals > 0 => ResultIsOn(FiveGateTable)

\* C9 witness: the document makes mutation_testing optional at 0.50; a
\* mutation score of 0.79 still fails the gate and gives AGENT_REFINE
C9_Witness ==
    /\ Evaluated
    /\ config_path.kind = "ok"
    /\ Len(config_path.body) = 1
    /\ config_path.body[1].name = "mutation_testing"
    /\ ~config_path.body[1].required
    /\ metrics.mutation = 79
    /\ failed_gates = << "mutation_testing" >>
    /\ decision = AGENT_REFINE

\* C10: with the configuration path absent, missing, unreadable or
\* unparseable, constructing QualityGateSystem raises nothing and yields the
\* default registry; no configuration leaves an empty or partial registry.
C10_ConfigErrorsNotFatal ==
    /\ evals = 0 => pc # "raised"
    /\ (pc # "new" /\ config_path.kind # "ok") => gates = FiveGateTable
    /\ pc # "new" => Len(gates) = 5

\* C11: the registry of a constructed QualityGateSystem has exactly five
\* gates with pairwise distinct names, in the order mutation_testing (0.80),
\* sast_security (0.0), contract_validation (1.0), devirtualization_rate
\* (0.60), build_success (true), every one required, and this is so before
\* and after every evaluate call made on it.
C11_DefaultRegistry ==
    pc = "ready" =>
        /\ Len(gates) = 5
        /\ \A i, j \in 1..Len(gates) : gates[i].name = gates[j].name => i = j
        /\ [i \in 1..Len(gates) |-> gates[i].name] =
               << "mutation_testing", "sast_security", "contract_validation",
                  "devirtualization_rate", "build_success" >>
        /\ [i \in 1..Len(gates) |-> gates[i].threshold] =
               << FloatT(80), FloatT(0), FloatT(100), FloatT(60), BoolT(TRUE) >>
        /\ \A i \in 1..Len(gates) : gates[i].required

\* C11 witness: the registry after MaxEvals evaluate calls, the last of which
\* failed a gate
C11_Witness ==
    /\ pc = "ready"
    /\ evals = MaxEvals
    /\ failed_gates # << >>
    /\ Len(gates) = 5

\* some external command of the run could not be started or returned non-zero
CollectionFailed == \E c \in DOMAIN tools : tools[c].kind # "ok"

\* an exception reached the handler of main
ExecutionFailed ==
    \/ CollectionFailed
    \/ _load_gates(config_path).raised
    \/ (decision # NoDecision /\ output # "none" /\ OutputWriteRaises(output))

\* C12: a run of main ends with exactly one exit code of 0..3: 0 exactly when
\* the decision is PROMOTE, 1 exactly when it is MANUAL_QA, 2 exactly when it
\* is AGENT_REFINE, 3 exactly when collecting, constructing, evaluating or
\* reporting failed; before the exit there is no code.
C12_ExitCodeMapping ==
    /\ pc # "exited" => exit_code = NoExit
    /\ pc = "exited" =>
          /\ exit_code \in 0..3
          /\ exit_code = 0 <=> decision = PROMOTE
          /\ exit_code = 1 <=> decision = MANUAL_QA
          /\ exit_code = 2 <=> decision = AGENT_REFINE
          /\ exit_code = 3 <=> ExecutionFailed

\* C13: when an external command of the collection fails, evaluate is not
\* called and the run exits with 3.
C13_CollectionFailureFatal ==
    CollectionFailed =>
        /\ evals = 0
        /\ pc = "exited" => exit_code = 3

\* how often n occurs in list
Occurs(list, n) == Cardinality({k \in 1..Len(list) : list[k] = n})

\* C14: for every snapshot and every registry, evaluate does not raise and
\* returns one result: each gate of the registry has been evaluated exactly
\* once, in order, and is listed once as passed or as failed, the decision is
\* one of PROMOTE, MANUAL_QA, AGENT_REFINE, and every message a gate evaluation
\* produced is an entry of warnings.
C14_EvaluateTotal ==
    evals > 0 =>
        /\ pc = "ready"
        /\ decision \in DecisionType
        /\ Len(outcomes) = Len(gates)
        /\ \A i \in 1..Len(gates) :
              /\ ~_evaluate_gate(gates[i], metrics).raised
              /\ outcomes[i].passed = _evaluate_gate(gates[i], metrics).passed
              /\ outcomes[i].warning = _evaluate_gate(gates[i], metrics).warning
              /\ Occurs(passed_gates, gates[i].name) + Occurs(failed_gates, gates[i].name)
                    = Cardinality({k \in 1..Len(gates) : gates[k].name = gates[i].name})
              /\ Truthy(outcomes[i].warning) => Occurs(warnings, outcomes[i].warning) > 0

\* C14 witness: an unrecognized gate followed by a required gate whose
\* threshold is not a number: both evaluated, three warnings, no exception
C14_Witness ==
    /\ pc = "ready"
    /\ evals = 1
    /\ Len(gates) = 2
    /\ gates[1].name \notin KnownGateNames
    /\ GateErrors(gates[2])
    /\ gates[2].required
    /\ Len(outcomes) = 2
    /\ Len(warnings) = 3
    /\ decision = AGENT_REFINE

C16_EvaluateFrame ==
    [][(pc = "call" /\ pc' = "ready") =>
          /\ metrics' = metrics
          /\ gates' = gates
          /\ thresholds' = thresholds
          /\ result_metrics' = metrics]_vars

\* C16 witness: after a call that failed a gate the registry still has its
\* five gates and the result refers to the snapshot passed
C16_Witness ==
    /\ pc = "ready"
    /\ evals = MaxEvals
    /\ failed_gates = << "mutation_testing" >>
    /\ Len(gates) = 5
    /\ thresholds = InitThresholds
    /\ result_metrics = metrics
    /\ metrics.mutation = 79

\* the snapshot of the end-to-end scenario has been collected and evaluated
ScenarioEvaluated ==
    /\ evals = 1
    /\ pc \in {"evaluated", "exited"}
    /\ metrics.mutation = 85
    /\ metrics.static_severity = 0
    /\ metrics.contract_pass_rate = One
    /\ metrics.devirt_success_rate = 70
    /\ metrics.build_success
    /\ metrics.delta_loc = 5
    /\ metrics.novelty = 5
    /\ metrics.ext_dep_delta = 0
    /\ metrics.flakiness = 0

\* all five gates of the default registry passed
AllFivePassed ==
    /\ passed_gates = << "mutation_testing", "sast_security", "contract_validation",
                         "devirtualization_rate", "build_success" >>
    /\ failed_gates = << >>

\* C17 as stated: for the scenario snapshot all five gates pass, the risk
\* score is 0.06, the decision is PROMOTE and the exit code is 0.
C17_ScenarioRisk006 ==
    ScenarioEvaluated =>
        /\ AllFivePassed
        /\ risk_score = 60
        /\ decision = PROMOTE
        /\ pc = "exited" => exit_code = 0

\* C17 amended: for the scenario snapshot all five gates pass, the risk score
\* is 0.01 + 0.01 + 0 + 0.03 + 0 + 0 = 0.05, the decision is PROMOTE, and the
\* exit code is 0 unless writing the output file raises, when it is 3.
C17_ScenarioRisk005 ==
    ScenarioEvaluated =>
        /\ AllFivePassed
        /\ risk_score = 50
        /\ decision = PROMOTE
        /\ pc = "exited" =>
              exit_code = IF output # "none" /\ OutputWriteRaises(output) THEN 3 ELSE 0

\* C17 witness: the scenario run to its exit, without an output file
C17_Witness ==
    /\ ScenarioEvaluated
    /\ pc = "exited"
    /\ output = "none"
    /\ risk_score = 50
    /\ decision = PROMOTE
    /\ exit_code = 0

\* C18: with the other five inputs held fixed, a higher mutation never gives
\* a higher risk score, and a higher delta_loc, novelty, ext_dep_delta,
\* flakiness or static_severity never gives a lower one.
C18_RiskMonotone ==
    (pc = "return" /\ previous.valid) =>
        /\ metrics.mutation > previous.metrics.mutation =>
              risk_score <= previous.risk_score
        /\ \A f \in RiskFields \ {"mutation"} :
              metrics[f] > previous.metrics[f] => risk_score >= previous.risk_score

\* C18 witness: a higher mutation lowered the score, from 0.5 to 0.38
C18_Witness ==
    /\ pc = "return"
    /\ previous.valid
    /\ previous.metrics.mutation = 40
    /\ metrics.mutation = 100
    /\ previous.risk_score = 500
    /\ risk_score = 380

\* the ratio fields of a snapshot
RatioFields ==
    {"delta_loc", "novelty", "ext_dep_delta", "mutation", "flakiness",
     "static_severity", "test_coverage", "devirt_success_rate",
     "contract_pass_rate"}

\* C19: every snapshot collect returns has each of its ratio fields within
\* [0, 1], whatever the external commands printed.
C19_ProducerNormalization ==
    pc # "main" => \A f \in RatioFields : metrics[f] >= 0 /\ metrics[f] <= One

\* the contract run found no contracts: it could not be started, it printed
\* no "a of b contracts passing", or it printed a total of zero
NoContracts ==
    \/ tools.contracts.kind = "raise"
    \/ tools.contracts.kind = "ok" /\ ~tools.contracts.out.found
    \/ tools.contracts.kind = "ok" /\ tools.contracts.out.found
          /\ tools.contracts.out.b = 0

DelayBeforeEachRequest ==
    \A k \in 1..Len(events) :
        events[k] = "request" => k > 1 /\ events[k - 1] = "delay"

\* C21: in collect_from_github every request sent through the session, the
\* search request of a query or the download of a file, is immediately
\* preceded by its own _rate_limit_delay, so no two requests follow each
\* other without a delay between them
C21_RateLimit ==
    /\ DelayBeforeEachRequest
    /\ Len(events) > 0 => events[1] = "delay"
    /\ (pc = "queries" /\ query > 0) =>
           /\ Len(events) >= 2
           /\ events[2] = "request"

\* C21 witness: a query whose search request was followed by two downloads
C21_Witness ==
    /\ pc = "queries"
    /\ query > 0
    /\ Len(events) = 6

\* the positions of samples that filter_and_deduplicate must keep: the
\* sample passes the filters and no earlier sample of its hash does
KeptPositions ==
    {i \in 1..Len(samples) :
        /\ PassesFilters(config, samples[i])
        /\ \A j \in 1..(i - 1) :
               PassesFilters(config, samples[j])
                   => samples[j].file_hash # samples[i].file_hash}

\* C22: filter_and_deduplicate returns an order-preserving subsequence of
\* its input in which no two samples share a file_hash, every file_size is
\* in [min_file_size, max_file_size] and every overall_score is at least
\* 0.3 (0.1 for a synthetic sample); of each hash the first sample that
\* passes all filters is the one kept
C22_FilterAndDeduplicate ==
    pc = "filtered" =>
        /\ \E f \in [1..Len(filtered) -> 1..Len(samples)] :
               /\ \A k \in 1..Len(filtered) : filtered[k] = samples[f[k]]
               /\ \A k, l \in 1..Len(filtered) : k < l => f[k] < f[l]
               /\ {f[k] : k \in 1..Len(filtered)} = KeptPositions
        /\ \A k, l \in 1..Len(filtered) :
               k # l => filtered[k].file_hash # filtered[l].file_hash
        /\ \A k \in 1..Len(filtered) :
               /\ config.min_file_size <= filtered[k].file_size
               /\ filtered[k].file_size <= config.max_file_size
               /\ filtered[k].overall_score >=
                      (IF filtered[k].source = "synthetic" THEN 10 ELSE 30)

\* C22 witness: a rejected sample, then an accepted one of the same hash,
\* then a duplicate of it, and the accepted one is what is returned
C22_Witness ==
    /\ pc = "filtered"
    /\ Len(samples) = 3
    /\ samples[1].file_hash = samples[2].file_hash
    /\ samples[2].file_hash = samples[3].file_hash
    /\ ~PassesFilters(config, samples[1])
    /\ PassesFilters(config, samples[2])
    /\ PassesFilters(config, samples[3])
    /\ filtered = << samples[2] >>

\* the names of the gates of the registry that _evaluate_gate passes
\* (p = TRUE) or fails (p = FALSE) on the evaluated snapshot, in registry order
RECURSIVE NamesInOrder(_, _)
NamesInOrder(p, i) ==
    IF i = 0 THEN << >>
    ELSE IF _evaluate_gate(gates[i], metrics).passed = p
    THEN Append(NamesInOrder(p, i - 1), gates[i].name)
    ELSE NamesInOrder(p, i - 1)

\* C23: after every evaluate call each gate of the registry appears exactly
\* once in passed_gates or failed_gates and never in both, the two lengths
\* add up to the size of the registry, and within each list the names are in
\* registry order
C23_GatePartition ==
    Evaluated =>
        /\ passed_gates = NamesInOrder(TRUE, Len(gates))
        /\ failed_gates = NamesInOrder(FALSE, Len(gates))
        /\ Len(passed_gates) + Len(failed_gates) = Len(gates)
        /\ UniqueNames =>
              \A i \in 1..Len(gates) :
                  /\ Occurs(passed_gates, gates[i].name)
                        + Occurs(failed_gates, gates[i].name) = 1
                  /\ ~(Holds(passed_gates, gates[i].name)
                         /\ Holds(failed_gates, gates[i].name))

\* C23 witness: the default registry with two failed gates and three
\* passed ones, each list in registry order
C23_Witness ==
    /\ Evaluated
    /\ gates = default_gates
    /\ failed_gates = << "mutation_testing", "devirtualization_rate" >>
    /\ passed_gates = << "sast_security", "contract_validation", "build_success" >>

\* what one gate adds to warnings: "Required gate '<name>' failed" and the
\* diagnostic for a failed required gate, the diagnostic alone for a failed
\* optional gate, the notice for an unknown gate, nothing for a known gate
\* that passes
WarningsOf(g) ==
    LET r == _evaluate_gate(g, metrics)
    IN  IF g.name \notin KnownGateNames THEN << MsgUnknownGate(g.name) >>
        ELSE IF r.passed THEN << >>
        ELSE IF g.required THEN << MsgRequiredFailed(g.name), r.warning >>
        ELSE << r.warning >>

RECURSIVE WarningsInOrder(_)
WarningsInOrder(i) ==
    IF i = 0 THEN << >> ELSE WarningsInOrder(i - 1) \o WarningsOf(gates[i])

\* C24: warnings is made of the contributions of the gates in registry
\* order: a failed required gate gives "Required gate '<name>' failed"
\* immediately followed by its diagnostic, a failed optional gate only its
\* diagnostic, an unknown gate only its notice, a passing known gate nothing;
\* with the default registry len(warnings) = 2 * len(failed_gates)
C24_WarningStructure ==
    Evaluated =>
        /\ warnings = WarningsInOrder(Len(gates))
        /\ \A i \in 1..Len(gates) :
              ~_evaluate_gate(gates[i], metrics).passed =>
                  _evaluate_gate(gates[i], metrics).warning.kind
                      \in {"below", "above", "build_failed", "error"}
        /\ gates = default_gates => Len(warnings) = 2 * Len(failed_gates)

\* C24 witness: a failed required gate followed by a failed optional gate:
\* three warnings, the first of them "Required gate ... failed"
C24_Witness ==
    /\ Evaluated
    /\ Len(gates) = 2
    /\ gates[1].required
    /\ ~gates[2].required
    /\ Len(failed_gates) = 2
    /\ Len(warnings) = 3
    /\ warnings[1] = MsgRequiredFailed(gates[1].name)

\* failed_gates without the names of the gates the registry marks optional
FailedRequiredOnly ==
    SelectSeq(failed_gates,
              LAMBDA n : \E i \in 1..Len(gates) : gates[i].name = n /\ gates[i].required)

\* C25: in a registry with unique names the failure of a gate with
\* required = false never changes the decision: the decision is the one
\* _make_decision gives without the failed optional gates, and with no
\* required gate failed it is the one of the risk thresholds alone; Refine
\* below T_prop (the override) is returned exactly when a gate marked
\* required is in failed_gates
C25_OptionalGates ==
    (pc = "return" /\ UniqueNames) =>
        /\ decision = _make_decision(gates, thresholds, risk_score, FailedRequiredOnly)
        /\ ~RequiredGateInFailed =>
              decision = (IF risk_score >= thresholds.T_prop THEN AGENT_REFINE
                          ELSE IF risk_score >= thresholds.T_manual THEN MANUAL_QA
                          ELSE PROMOTE)
        /\ RequiredGateInFailed => decision = AGENT_REFINE
        /\ risk_score < thresholds.T_prop =>
              (decision = AGENT_REFINE <=> RequiredGateInFailed)

\* C25 witness: every optional gate of a registry with required gates has
\* failed, no required one has, and the decision is still Promote
C25_Witness ==
    /\ pc = "return"
    /\ UniqueNames
    /\ Len(failed_gates) = 2
    /\ \E i \in 1..Len(gates) : gates[i].required
    /\ \A i \in 1..Len(gates) :
           gates[i].required <=> ~Holds(failed_gates, gates[i].name)
    /\ risk_score < thresholds.T_manual
    /\ decision = PROMOTE

\* the names of the default registry, in its order
DefaultGateNames == [i \in 1..Len(default_gates) |-> default_gates[i].name]

\* C26: with the default registry a result whose decision is Promote or
\* ManualQA has no failed gate, no warning and all five gate names in
\* passed_gates; Promote implies risk_score < 0.50 and ManualQA implies
\* 0.50 <= risk_score < 0.70
C26_CleanPromotion ==
    (Evaluated /\ gates = default_gates /\ decision \in {PROMOTE, MANUAL_QA}) =>
        /\ failed_gates = << >>
        /\ warnings = << >>
        /\ passed_gates = DefaultGateNames
        /\ Len(passed_gates) = 5
        /\ decision = PROMOTE => risk_score < 500
        /\ decision = MANUAL_QA => (risk_score >= 500 /\ risk_score < 700)

\* C26 witness: a ManualQA result of the default registry, all gates passed
C26_Witness ==
    /\ Evaluated
    /\ gates = default_gates
    /\ decision = MANUAL_QA
    /\ Len(passed_gates) = 5
    /\ warnings = << >>

\* C27: the list collect_from_github returns holds at most
\* config.max_samples_per_source samples, no two of them with the same
\* file_hash, none with a hash that was in collected_hashes before, and
\* every returned hash is in collected_hashes
C27_SampleCap ==
    /\ Len(samples) <= config.max_samples_per_source
    /\ \A k, l \in 1..Len(samples) :
           k # l => samples[k].file_hash # samples[l].file_hash
    /\ \A k \in 1..Len(samples) : samples[k].file_hash \in collected_hashes

\* the sources the configuration enables, in the order of collect_all_sources
EnabledSources ==
    (IF config.enable_malwarebazaar_collection THEN << "malwarebazaar" >> ELSE << >>)
        \o (IF config.enable_github_collection THEN << "github" >> ELSE << >>)
        \o (IF config.enable_academic_collection THEN << "academic" >> ELSE << >>)

\* what the enabled sources that did not raise returned, one after the other
ReturnedBySources ==
    (IF config.enable_malwarebazaar_collection /\ ~sources.mb.raises
     THEN sources.mb.value ELSE << >>)
        \o (IF config.enable_github_collection /\ ~sources.gh.raises
            THEN sources.gh.value ELSE << >>)
        \o (IF config.enable_academic_collection /\ ~sources.ac.raises
            THEN sources.ac.value ELSE << >>)

\* C28: collect_all_sources attempts the enabled sources in the order
\* MalwareBazaar, GitHub, academic, whether or not an earlier one raised,
\* and never a disabled one; the samples of the sources that returned are
\* kept; filter_and_deduplicate is applied last, exactly once, to their
\* concatenation
C28_SourceIsolation ==
    /\ \A k \in 1..Len(events) :
           events[k] = "filter" => (k = Len(events) /\ pc = "done")
    /\ pc = "filter" =>
           /\ events = EnabledSources
           /\ samples = ReturnedBySources
    /\ pc = "done" =>
           /\ events = EnabledSources \o << "filter" >>
           /\ samples = ReturnedBySources
           /\ filtered = filter_and_deduplicate(config, ReturnedBySources)

\* C28 witness: MalwareBazaar is disabled, GitHub returns a sample, the
\* academic source raises, and the GitHub sample is what gets filtered
C28_Witness ==
    /\ pc = "done"
    /\ events = << "github", "academic", "filter" >>
    /\ sources.ac.raises
    /\ Len(samples) = 1
    /\ filtered = samples
====
